---- MODULE Spec2Model ----
(***************************************************************************)
(* Model of the Docugent retrieval pipeline (MongoDocumentProcessor):      *)
(* chunking, embedding with synthetic fallback, session-scoped storage in  *)
(* the "documents" and "metadata" collections, top-K retrieval and         *)
(* document / session cleanup.                                             *)
(*                                                                         *)
(* Strings are run-length encoded: a string is a sequence of runs          *)
(* [c |-> character, n |-> repetitions], adjacent runs having different    *)
(* characters and n >= 1.  This keeps strings longer than chunkSize or     *)
(* than the 8000 character embedding limit small in the model while        *)
(* every string operation of the code is computed on them exactly.         *)
(***************************************************************************)
EXTENDS Integers, Sequences, FiniteSets, TLC

(***************************************************************************)
(* Program constants                                                       *)
(***************************************************************************)
chunkSize == 1000
EmbeddingSize == 384
MaxEmbedChars == 8000
MaxTextLength == 1000000
MaxTopK == 20

(***************************************************************************)
(* Bounds of the model                                                     *)
(***************************************************************************)
\* number of calls (processDocument, retrieveContext, cleanupDocument,
\* cleanupSession) in a run
MaxCalls == 3
\* number of store operations that fail in a run
MaxStoreFailures == 1
\* length of the vectors the embedding provider returns
ProviderDim == 3
\* number of pieces a text given to splitIntoChunks is made of
MaxPieces == 5
\* number of POST requests to the query route in a run
MaxRequests == 3
MaxConnectionCalls == 4

(***************************************************************************)
(* Run-length encoded strings                                              *)
(***************************************************************************)
Run(c, n) == [c |-> c, n |-> n]

Str(c, n) == IF n = 0 THEN << >> ELSE << Run(c, n) >>

IsWhitespace(c) == c \in {" ", "\n", "\t"}

IsTerminator(c) == c \in {".", "!", "?"}

IsDigit(c) == c \in {"1", "2"}

RECURSIVE Normalize(_)
\* canonical form: no empty run, no two adjacent runs of one character
Normalize(t) ==
  IF t = << >> THEN << >>
  ELSE IF Head(t).n = 0 THEN Normalize(Tail(t))
  ELSE LET r == Normalize(Tail(t)) IN
       IF r # << >> /\ Head(r).c = Head(t).c
       THEN << Run(Head(t).c, Head(t).n + Head(r).n) >> \o Tail(r)
       ELSE << Head(t) >> \o r

\* a + b on strings
Concat(a, b) == Normalize(a \o b)

RECURSIVE StrLen(_)
\* s.length
StrLen(t) == IF t = << >> THEN 0 ELSE Head(t).n + StrLen(Tail(t))

RECURSIVE Substring0(_, _)
\* s.substring(0, k)
Substring0(t, k) ==
  IF t = << >> \/ k <= 0 THEN << >>
  ELSE IF Head(t).n >= k THEN << Run(Head(t).c, k) >>
  ELSE << Head(t) >> \o Substring0(Tail(t), k - Head(t).n)

RECURSIVE DropLeadingWs(_)
DropLeadingWs(t) ==
  IF t # << >> /\ IsWhitespace(Head(t).c) THEN DropLeadingWs(Tail(t)) ELSE t

RECURSIVE DropTrailingWs(_)
DropTrailingWs(t) ==
  IF t # << >> /\ IsWhitespace(t[Len(t)].c)
  THEN DropTrailingWs(SubSeq(t, 1, Len(t) - 1)) ELSE t

\* s.trim()
Trim(t) == DropTrailingWs(DropLeadingWs(t))

ToLowerChar(c) == IF c = "A" THEN "a" ELSE IF c = "B" THEN "b" ELSE c

\* s.toLowerCase()
ToLowerCase(t) == Normalize([i \in 1..Len(t) |-> Run(ToLowerChar(t[i].c), t[i].n)])

RECURSIVE CollapseWs(_, _)
\* s.replace(/\s+/g, " "): inWs tells whether the run before the head of t
\* was whitespace
CollapseWs(t, inWs) ==
  IF t = << >> THEN << >>
  ELSE IF IsWhitespace(Head(t).c)
       THEN (IF inWs THEN << >> ELSE << Run(" ", 1) >>) \o CollapseWs(Tail(t), TRUE)
       ELSE << Head(t) >> \o CollapseWs(Tail(t), FALSE)

RECURSIVE WsStretchEnd(_, _)
\* index of the last run of the whitespace stretch that starts at run i of t
WsStretchEnd(t, i) ==
  IF i <= Len(t) /\ IsWhitespace(t[i].c) THEN WsStretchEnd(t, i + 1) ELSE i - 1

Min(S) == CHOOSE x \in S : \A y \in S : x <= y

Max(S) == CHOOSE x \in S : \A y \in S : x >= y

RECURSIVE CollapseBlankLines(_, _)
\* s.replace(/\n\s*\n/g, "\n") scanning from run i: in each maximal
\* whitespace stretch the part from its first to its last "\n" (when these
\* are two different characters) becomes a single "\n"
CollapseBlankLines(t, i) ==
  IF i > Len(t) THEN << >>
  ELSE IF ~IsWhitespace(t[i].c) THEN << t[i] >> \o CollapseBlankLines(t, i + 1)
  ELSE LET e == WsStretchEnd(t, i)
           nl == {j \in i..e : t[j].c = "\n"}
           cnt == IF nl = {} THEN 0
                  ELSE IF Cardinality(nl) > 1 THEN 2 ELSE t[Min(nl)].n
       IN IF cnt < 2 THEN SubSeq(t, i, e) \o CollapseBlankLines(t, e + 1)
          ELSE SubSeq(t, i, Min(nl) - 1) \o << Run("\n", 1) >>
               \o SubSeq(t, Max(nl) + 1, e) \o CollapseBlankLines(t, e + 1)

\* MongoDocumentProcessor.preprocessText
preprocessText(text) ==
  Trim(Normalize(CollapseBlankLines(Normalize(CollapseWs(text, FALSE)), 1)))

InClass(c, cls) == IF cls = "terminator" THEN IsTerminator(c) ELSE IsWhitespace(c)

RECURSIVE ClassStretchEnd(_, _, _)
ClassStretchEnd(t, i, cls) ==
  IF i <= Len(t) /\ InClass(t[i].c, cls) THEN ClassStretchEnd(t, i + 1, cls) ELSE i - 1

RECURSIVE SplitFrom(_, _, _, _)
\* s.split(/[.!?]+/) (cls = "terminator") and s.split(/\s+/) (cls =
\* "whitespace"): the pieces between the maximal separator stretches, an
\* empty piece included when the string starts or ends with a separator
SplitFrom(t, i, cur, cls) ==
  IF i > Len(t) THEN << cur >>
  ELSE IF InClass(t[i].c, cls)
       THEN << cur >> \o SplitFrom(t, ClassStretchEnd(t, i, cls) + 1, << >>, cls)
       ELSE SplitFrom(t, i + 1, Append(cur, t[i]), cls)

Split(t, cls) == SplitFrom(t, 1, << >>, cls)

NonBlank(s) == StrLen(Trim(s)) > 0

DotSpace == << Run(".", 1), Run(" ", 1) >>

RECURSIVE ChunkLoopMerging(_, _, _, _)
\* a loop that never closes a chunk: every sentence goes into the current one
ChunkLoopMerging(sentences, i, currentChunk, chunks) ==
  IF i > Len(sentences)
  THEN IF currentChunk # << >> THEN Append(chunks, currentChunk) ELSE chunks
  ELSE ChunkLoopMerging(sentences, i + 1,
         Concat(Concat(currentChunk,
                       IF currentChunk # << >> THEN DotSpace ELSE << >>),
                Trim(sentences[i])),
         chunks)

RECURSIVE ChunkLoopDropping(_, _, _, _)
\* a loop that starts a new chunk without pushing the one it closes
ChunkLoopDropping(sentences, i, currentChunk, chunks) ==
  IF i > Len(sentences)
  THEN IF currentChunk # << >> THEN Append(chunks, currentChunk) ELSE chunks
  ELSE LET trimmedSentence == Trim(sentences[i])
           potentialChunk ==
             Concat(Concat(currentChunk,
                           IF currentChunk # << >> THEN DotSpace ELSE << >>),
                    trimmedSentence)
       IN IF StrLen(potentialChunk) <= chunkSize
          THEN ChunkLoopDropping(sentences, i + 1, potentialChunk, chunks)
          ELSE ChunkLoopDropping(sentences, i + 1, trimmedSentence, chunks)

RECURSIVE ChunkLoopEager(_, _, _, _)
\* a loop that closes the current chunk at every sentence
ChunkLoopEager(sentences, i, currentChunk, chunks) ==
  IF i > Len(sentences)
  THEN IF currentChunk # << >> THEN Append(chunks, currentChunk) ELSE chunks
  ELSE ChunkLoopEager(sentences, i + 1, Trim(sentences[i]),
                      IF currentChunk # << >> THEN Append(chunks, currentChunk)
                      ELSE chunks)

RECURSIVE ChunkLoop(_, _, _, _)
\* the for loop of splitIntoChunks from sentence i on, followed by the final
\* push of a non-empty currentChunk
ChunkLoop(sentences, i, currentChunk, chunks) ==
  IF i > Len(sentences)
  THEN IF currentChunk # << >> THEN Append(chunks, currentChunk) ELSE chunks
  ELSE LET trimmedSentence == Trim(sentences[i])
           potentialChunk ==
             Concat(Concat(currentChunk,
                           IF currentChunk # << >> THEN DotSpace ELSE << >>),
                    trimmedSentence)
       IN IF trimmedSentence = << >>
          THEN ChunkLoop(sentences, i + 1, currentChunk, chunks)
          ELSE IF StrLen(potentialChunk) <= chunkSize
          THEN ChunkLoop(sentences, i + 1, potentialChunk, chunks)
          ELSE ChunkLoop(sentences, i + 1, trimmedSentence,
                         IF currentChunk # << >> THEN Append(chunks, currentChunk)
                         ELSE chunks)

\* MongoDocumentProcessor.splitIntoChunks
splitIntoChunks(text) ==
  ChunkLoop(SelectSeq(Split(text, "terminator"), NonBlank), 1, << >>, << >>)

(***************************************************************************)
(* Vectors.  A vector of length dim is [dim, num, den]: entry i (1-based)  *)
(* is num[i] / den for i <= Len(num) and 0 for Len(num) < i <= dim.        *)
(***************************************************************************)
Vec(dim, num, den) == [dim |-> dim, num |-> num, den |-> den]

VecLen(v) == v.dim

RECURSIVE Expand(_)
\* the characters of a string one by one
Expand(t) ==
  IF t = << >> THEN << >>
  ELSE IF Head(t).n = 1 THEN << Head(t).c >> \o Expand(Tail(t))
  ELSE << Head(t).c >> \o Expand(<< Run(Head(t).c, Head(t).n - 1) >> \o Tail(t))

\* a property name that is an array index ("1", "12", ...): JavaScript lists
\* these keys first, in ascending numeric order (the digits of the model are
\* 1 and 2, so every digit string of up to 10 characters is below 2^32 - 1)
IsArrayIndex(w) ==
  /\ w # << >>
  /\ \A i \in 1..Len(w) : IsDigit(w[i].c)
  /\ StrLen(w) <= 10

RECURSIVE LexLess(_, _)
LexLess(a, b) ==
  IF a = << >> \/ b = << >> THEN FALSE
  ELSE IF Head(a) # Head(b) THEN Head(a) = "1" /\ Head(b) = "2"
  ELSE LexLess(Tail(a), Tail(b))

NumLess(a, b) ==
  \/ StrLen(a) < StrLen(b)
  \/ StrLen(a) = StrLen(b) /\ LexLess(Expand(a), Expand(b))

RECURSIVE SortIndexKeys(_)
SortIndexKeys(S) ==
  IF S = {} THEN << >>
  ELSE LET m == CHOOSE x \in S : \A y \in S \ {x} : NumLess(x, y)
       IN << m >> \o SortIndexKeys(S \ {m})

RECURSIVE Distinct(_, _)
\* the distinct elements of a sequence in first-seen order
Distinct(ws, seen) ==
  IF ws = << >> THEN << >>
  ELSE IF Head(ws) \in seen THEN Distinct(Tail(ws), seen)
  ELSE << Head(ws) >> \o Distinct(Tail(ws), seen \cup {Head(ws)})

NotArrayIndex(w) == ~IsArrayIndex(w)

\* Object.keys(wordFreq)
ObjectKeys(words) ==
  LET d == Distinct(words, {}) IN
  SortIndexKeys({d[i] : i \in {j \in 1..Len(d) : IsArrayIndex(d[j])}})
    \o SelectSeq(d, NotArrayIndex)

Count(words, w) == Cardinality({i \in 1..Len(words) : words[i] = w})

\* MongoDocumentProcessor.createTextBasedEmbedding
createTextBasedEmbedding(text) ==
  LET words == Split(ToLowerCase(text), "whitespace")
      allWords == ObjectKeys(words)
      k == IF Len(allWords) < EmbeddingSize THEN Len(allWords) ELSE EmbeddingSize
  IN Vec(EmbeddingSize, [i \in 1..k |-> Count(words, allWords[i])], Len(words))

(***************************************************************************)
(* Inputs of the calls                                                     *)
(***************************************************************************)
TextEmpty == << >>
TextBlank == Str(" ", 2)
TextDots == Str(".", 3)
\* "a b. a": one chunk
TextOne ==
  << Run("a", 1), Run(" ", 1), Run("b", 1), Run(".", 1), Run(" ", 1), Run("a", 1) >>
\* two sentences of 600 characters: two chunks
TextTwo == << Run("a", 600), Run(".", 1), Run(" ", 1), Run("b", 600), Run(".", 1) >>


QueryEmpty == << >>
QueryBlank == Str(" ", 1)
QueryA == Str("a", 1)
QueryB == Str("b", 1)
\* 8000 times "a", a space and "b": longer than the embedding input limit
QueryLong == << Run("a", 8000), Run(" ", 1), Run("b", 1) >>

\* what the texts given to the chunker are made of: sentences of half the
\* chunk size, one character less, and more than the chunk size, terminators
\* and whitespace
Pieces ==
  {Str("a", chunkSize \div 2 - 1), Str("a", chunkSize \div 2), Str("a", chunkSize + 1),
   DotSpace, Str("!", 1), Str(" ", 1)}

RECURSIVE TextsOf(_)
\* the texts made of at most k pieces
TextsOf(k) ==
  IF k = 0 THEN {<< >>}
  ELSE LET shorter == TextsOf(k - 1)
       IN shorter \cup {Concat(t, piece) : t \in shorter, piece \in Pieces}

ChunkerTexts == TextsOf(MaxPieces)

\* what the texts given to createTextBasedEmbedding are made of: letters in
\* both cases, digits and whitespace
WordPieces == {Str("a", 1), Str("B", 1), Str("b", 1), Str("1", 1), Str("2", 1), Str(" ", 1)}

RECURSIVE WordTextsOf(_)
\* the texts made of at most k of these pieces
WordTextsOf(k) ==
  IF k = 0 THEN {<< >>}
  ELSE LET shorter == WordTextsOf(k - 1)
       IN shorter \cup {Concat(t, piece) : t \in shorter, piece \in WordPieces}

EmbeddingTexts == WordTextsOf(MaxPieces)

Sources == {"f.pdf"}

Procs == {1, 2}

Requests == 1..MaxRequests

\* the inputs of the calls made one at a time: the same documentId in two
\* sessions, and two documents in one session
SequentialInputs ==
  [keys |-> {<< "d1", "A" >>, << "d1", "B" >>, << "d2", "A" >>},
   queryKeys |-> {<< "d1", "A" >>, << "d1", "B" >>, << "d2", "A" >>, << "", "A" >>},
   sessions |-> {"A", "B"},
   texts |-> [key \in {<< "d1", "A" >>, << "d1", "B" >>, << "d2", "A" >>} |->
                IF key = << "d1", "A" >> THEN {TextBlank, TextOne}
                ELSE {TextOne}],
   queries |-> {QueryEmpty, QueryBlank, QueryA, QueryLong},
   topKs |-> {0, 1, MaxTopK + 1}]

\* the inputs of the calls on one document of two chunks
DocumentInputs ==
  [keys |-> {<< "d1", "A" >>},
   queryKeys |-> {<< "d1", "A" >>},
   sessions |-> {"A"},
   texts |-> [key \in {<< "d1", "A" >>} |-> {TextDots, TextTwo}],
   queries |-> {QueryA, QueryB, QueryLong},
   topKs |-> {1, 2, 5}]

\* the inputs of the interleaved calls: all on one (documentId, sessionId)
ConcurrentInputs ==
  [keys |-> {<< "d1", "A" >>},
   queryKeys |-> {<< "d1", "A" >>},
   sessions |-> {"A"},
   texts |-> [key \in {<< "d1", "A" >>} |-> {TextDots, TextTwo}],
   queries |-> {QueryA},
   topKs |-> {1}]

\* what the request to the embedding provider ends with
EmbedOutcomes ==
  {"ok", "401", "404-no-models", "404", "429", "500", "other-status",
   "network-error", "timeout", "malformed", "empty-embedding"}

UnitVector(j) == Vec(ProviderDim, [i \in 1..ProviderDim |-> IF i = j THEN 1 ELSE 0], 1)

\* the vector the provider's model answers with for a text: a function of
\* the text (here of its first letter)
ProviderAnswer(text) ==
  IF text # << >> /\ ToLowerChar(Head(text).c) = "a" THEN UnitVector(1)
  ELSE UnitVector(2)

Null == [null |-> TRUE]

NotFound == "Document not found or not processed"

StoreError == "MongoNetworkError"

(***************************************************************************)
(* The embedder                                                            *)
(***************************************************************************)
\* MongoDocumentProcessor.createEmbedding: [embedding, raised, requested],
\* requested telling whether the POST to /embeddings was issued.  The text
\* the fallback embeds is the parameter as reassigned by the truncation.
\* a createEmbedding without the catch block around the request
createEmbeddingPropagating(text, disabled, outcome, provided) ==
  [embedding |-> IF outcome = "ok" THEN provided ELSE createTextBasedEmbedding(text),
   raised |-> ~disabled /\ outcome # "ok",
   requested |-> ~disabled]

createEmbedding(text, disabled, outcome, provided) ==
  LET invalid == text = << >> \/ StrLen(Trim(text)) = 0
      sent == IF StrLen(text) > MaxEmbedChars THEN Substring0(text, MaxEmbedChars)
              ELSE text
  IN IF disabled
     THEN [embedding |-> createTextBasedEmbedding(text), raised |-> FALSE,
           requested |-> FALSE]
     ELSE IF invalid
     THEN [embedding |-> createTextBasedEmbedding(text), raised |-> FALSE,
           requested |-> FALSE]
     ELSE IF outcome = "ok"
     THEN [embedding |-> provided, raised |-> FALSE, requested |-> TRUE]
     ELSE [embedding |-> createTextBasedEmbedding(sent), raised |-> FALSE,
           requested |-> TRUE]

\* the DocumentChunk generateEmbeddings pushes for chunk i (0-based)
MakeChunk(documentId, i, chunk, embedding, source, sessionId) ==
  [id |-> << documentId, "-", i >>,
   text |-> chunk,
   embedding |-> embedding,
   metadata |-> [documentId |-> documentId, chunkIndex |-> i,
                 source |-> source, sessionId |-> sessionId]]

\* MongoDocumentProcessor.generateEmbeddings with DISABLE_EMBEDDINGS = "true"
generateEmbeddingsDisabled(chunks, documentId, source, sessionId) ==
  [i \in 1..Len(chunks) |->
     MakeChunk(documentId, i - 1, chunks[i], createTextBasedEmbedding(chunks[i]),
               source, sessionId)]

(***************************************************************************)
(* The collections                                                         *)
(***************************************************************************)
ChunkMatches(c, documentId, sessionId) ==
  c.metadata.documentId = documentId /\ c.metadata.sessionId = sessionId

MetaMatches(m, documentId, sessionId) ==
  m.documentId = documentId /\ m.sessionId = sessionId

\* the elements of a collection at the indices in keep, in stored order
SelectIdx(coll, keep) ==
  LET F[i \in 0..Len(coll)] ==
        IF i = 0 THEN << >>
        ELSE IF i \in keep THEN Append(F[i - 1], coll[i]) ELSE F[i - 1]
  IN F[Len(coll)]

\* documents.find({"metadata.documentId", "metadata.sessionId"}).toArray()
\* a find whose filter names the document only
findChunksAnySession(coll, documentId, sessionId) ==
  SelectIdx(coll, {i \in 1..Len(coll) : coll[i].metadata.documentId = documentId})

findChunks(coll, documentId, sessionId) ==
  SelectIdx(coll, {i \in 1..Len(coll) : ChunkMatches(coll[i], documentId, sessionId)})

\* metadata.findOne({documentId, sessionId})
findOneMetadata(coll, documentId, sessionId) ==
  LET hit == {i \in 1..Len(coll) : MetaMatches(coll[i], documentId, sessionId)}
  IN IF hit = {} THEN Null ELSE coll[Min(hit)]

\* line 206: no metadata record was found
DocumentNotProcessed(docMetadata) == docMetadata = Null

\* a lookup of chunks whose result is taken as it comes
ChunksAssumed(documentChunks) == FALSE

\* line 219: no chunk was found
NoChunksFound(documentChunks) == Len(documentChunks) = 0

\* a deleteMany whose filter names the document only
deleteManyChunksAnySession(coll, documentId, sessionId) ==
  SelectIdx(coll, {i \in 1..Len(coll) : coll[i].metadata.documentId # documentId})

\* documents.deleteMany({"metadata.documentId", "metadata.sessionId"})
deleteManyChunks(coll, documentId, sessionId) ==
  SelectIdx(coll, {i \in 1..Len(coll) : ~ChunkMatches(coll[i], documentId, sessionId)})

\* a deleteOne that removes nothing
deleteOneMetadataNothing(coll, documentId, sessionId) == coll

\* metadata.deleteOne({documentId, sessionId}): the first match, if any
deleteOneMetadata(coll, documentId, sessionId) ==
  LET hit == {i \in 1..Len(coll) : MetaMatches(coll[i], documentId, sessionId)}
  IN IF hit = {} THEN coll ELSE SelectIdx(coll, (1..Len(coll)) \ {Min(hit)})

\* documents.deleteMany({"metadata.sessionId"})
deleteManySessionChunks(coll, sessionId) ==
  SelectIdx(coll, {i \in 1..Len(coll) : coll[i].metadata.sessionId # sessionId})

\* a delete by session that removes the first match only
deleteFirstSessionMetadata(coll, sessionId) ==
  LET hit == {i \in 1..Len(coll) : coll[i].sessionId = sessionId}
  IN IF hit = {} THEN coll ELSE SelectIdx(coll, (1..Len(coll)) \ {Min(hit)})

\* metadata.deleteMany({sessionId})
deleteManySessionMetadata(coll, sessionId) ==
  SelectIdx(coll, {i \in 1..Len(coll) : coll[i].sessionId # sessionId})

\* .sort({processedAt: -1}): newest first, equal dates in the order found
InsertByDate(sorted, x) ==
  LET older == {i \in 1..Len(sorted) : sorted[i].processedAt < x.processedAt}
      at == IF older = {} THEN Len(sorted) + 1 ELSE Min(older)
  IN SubSeq(sorted, 1, at - 1) \o << x >> \o SubSeq(sorted, at, Len(sorted))

RECURSIVE SortNewestFirst(_)
SortNewestFirst(found) ==
  IF found = << >> THEN << >>
  ELSE InsertByDate(SortNewestFirst(SubSeq(found, 1, Len(found) - 1)),
                    found[Len(found)])

\* listDocuments(sessionId), given the metadata collection
listDocuments(coll, sessionId) ==
  LET found == SelectIdx(coll, {i \in 1..Len(coll) : coll[i].sessionId = sessionId})
      sorted == SortNewestFirst(found)
  IN [i \in 1..Len(sorted) |->
        [documentId |-> sorted[i].documentId, source |-> sorted[i].source,
         processedAt |-> sorted[i].processedAt,
         chunkCount |-> sorted[i].chunkCount]]

(***************************************************************************)
(* Similarity and ranking.  The cosine of a and b is                       *)
(* dot(a,b) / (sqrt(|a|^2) * sqrt(|b|^2)); the scales a.den and b.den       *)
(* cancel, so a similarity is kept as [nan, d, n, m]: NaN, or the number   *)
(* d / (sqrt(n) * sqrt(m)) with d, n, m the integer dot product and        *)
(* squared norms of the numerators.                                        *)
(***************************************************************************)
Entry(v, i) == IF i <= Len(v.num) THEN v.num[i] ELSE 0

RECURSIVE SumTo(_, _, _)
SumTo(a, b, k) == IF k = 0 THEN 0 ELSE Entry(a, k) * Entry(b, k) + SumTo(a, b, k - 1)

\* sum of a[i] * b[i] over the entries (entries past both numerators are 0)
Dot(a, b) == SumTo(a, b, IF Len(a.num) < Len(b.num) THEN Len(a.num) ELSE Len(b.num))

ZeroSimilarity == [thrown |-> FALSE, nan |-> FALSE, d |-> 0, n |-> 1, m |-> 1]

\* MongoDocumentProcessor.cosineSimilarity; thrown = "Vectors must have the
\* same length"; 0 / 0 and x / 0 * 0 are NaN
cosineSimilarity(a, b) ==
  IF VecLen(a) # VecLen(b)
  THEN [thrown |-> TRUE, nan |-> FALSE, d |-> 0, n |-> 1, m |-> 1]
  ELSE IF Dot(a, a) = 0 \/ Dot(b, b) = 0
  THEN [thrown |-> FALSE, nan |-> TRUE, d |-> 0, n |-> 1, m |-> 1]
  ELSE [thrown |-> FALSE, nan |-> FALSE, d |-> Dot(a, b), n |-> Dot(a, a),
        m |-> Dot(b, b)]

Sign(x) == IF x > 0 THEN 1 ELSE IF x < 0 THEN -1 ELSE 0

\* the sign of x.similarity - y.similarity for two numbers
CompareNumbers(x, y) ==
  IF Sign(x.d) # Sign(y.d) THEN Sign(Sign(x.d) - Sign(y.d))
  ELSE Sign(x.d) * Sign(x.d * x.d * y.n * y.m - y.d * y.d * x.n * x.m)

\* the comparator (a, b) => b.similarity - a.similarity as sort reads it:
\* negative, zero or positive; a NaN difference counts as 0
Comparator(a, b) ==
  IF a.similarity.nan \/ b.similarity.nan THEN 0
  ELSE CompareNumbers(b.similarity, a.similarity)

RECURSIVE InsertSortedUnstable(_, _)
\* an insertion that puts x before the elements it compares equal to
InsertSortedUnstable(sorted, x) ==
  IF sorted = << >> THEN << x >>
  ELSE IF Comparator(sorted[Len(sorted)], x) < 0 THEN Append(sorted, x)
  ELSE Append(InsertSortedUnstable(SubSeq(sorted, 1, Len(sorted) - 1), x),
              sorted[Len(sorted)])

RECURSIVE InsertSorted(_, _)
\* x inserted after the last element it does not sort before
InsertSorted(sorted, x) ==
  IF sorted = << >> THEN << x >>
  ELSE IF Comparator(sorted[Len(sorted)], x) <= 0 THEN Append(sorted, x)
  ELSE Append(InsertSorted(SubSeq(sorted, 1, Len(sorted) - 1), x), sorted[Len(sorted)])

RECURSIVE SortBySimilarity(_)
\* Array.prototype.sort with the comparator above (stable)
SortBySimilarity(items) ==
  IF items = << >> THEN << >>
  ELSE InsertSorted(SortBySimilarity(SubSeq(items, 1, Len(items) - 1)), items[Len(items)])

\* a scoring without the try/catch around cosineSimilarity: what it throws
\* ends the map, and no chunk is scored
SimilaritiesAborting(queryEmbedding, documentChunks) ==
  IF \E i \in 1..Len(documentChunks) :
       cosineSimilarity(queryEmbedding, documentChunks[i].embedding).thrown
  THEN << >>
  ELSE [i \in 1..Len(documentChunks) |->
          [chunk |-> documentChunks[i],
           similarity |-> cosineSimilarity(queryEmbedding, documentChunks[i].embedding)]]

\* lines 253-271: the similarity of every chunk, 0 when cosineSimilarity throws
Similarities(queryEmbedding, documentChunks) ==
  [i \in 1..Len(documentChunks) |->
     LET sim == cosineSimilarity(queryEmbedding, documentChunks[i].embedding)
     IN [chunk |-> documentChunks[i],
         similarity |-> IF sim.thrown THEN ZeroSimilarity ELSE sim]]

\* a selection that takes the first topK chunks as stored, without sorting
TopChunksUnsorted(queryEmbedding, documentChunks, topK) ==
  LET k == IF topK < Len(documentChunks) THEN topK ELSE Len(documentChunks)
  IN [i \in 1..k |-> documentChunks[i]]

\* a selection that keeps only the chunks of positive similarity before the
\* slice: a query that shares nothing with the document selects no chunk
TopChunksRelevant(queryEmbedding, documentChunks, topK) ==
  LET Relevant(item) == ~item.similarity.nan /\ item.similarity.d > 0
      sorted == SelectSeq(SortBySimilarity(Similarities(queryEmbedding, documentChunks)),
                          Relevant)
      k == IF topK < Len(sorted) THEN topK ELSE Len(sorted)
  IN [i \in 1..k |-> sorted[i].chunk]

\* lines 273-277: sort, slice(0, topK), map to the chunks
TopChunks(queryEmbedding, documentChunks, topK) ==
  LET sorted == SortBySimilarity(Similarities(queryEmbedding, documentChunks))
      k == IF topK < Len(sorted) THEN topK ELSE Len(sorted)
  IN [i \in 1..k |-> sorted[i].chunk]

BlankLine == << Run("\n", 2) >>

RECURSIVE Join(_, _)
\* strings.join(sep)
Join(strings, sep) ==
  IF strings = << >> THEN << >>
  ELSE IF Len(strings) = 1 THEN strings[1]
  ELSE Concat(Concat(strings[1], sep), Join(Tail(strings), sep))

(***************************************************************************)
(* State                                                                   *)
(***************************************************************************)
VARIABLES
  documents,          \* the "documents" collection, in insertion order
  metadata,           \* the "metadata" collection, in insertion order
  disableEmbeddings,  \* process.env.DISABLE_EMBEDDINGS === "true"
  procs,              \* the calls in flight: arguments, locals, position; with
                      \* the collections as they were when the call was made
                      \* (documents0, metadata0)
  calls,              \* number of calls made so far (also the clock)
  failures,           \* number of store operations that failed so far
  requestQueue,       \* route.ts: the queued requests, oldest first
  isProcessingRequest, \* route.ts: a processQueue loop is running
  modelLoadingPromise, \* route.ts: null, or the loadModel call awaited
  isModelLoaded,      \* route.ts
  loadModelCalls,     \* the loadModel calls made so far: position, outcome
  queries,            \* the POST requests: position in processQuery, response
  arrived,            \* the requests in the order they were pushed
  startedQueries,     \* the requests in the order processQuery was started
  client,             \* mongodb.ts: null (NoClient), or the MongoClient instance
  db,                 \* mongodb.ts: null (NoDb), or the cached Db
  connectionCalls,    \* the connectToDatabase and closeDatabaseConnection
                      \* calls made so far: position, outcome
  clients,            \* the MongoClient instances created so far: open or closed
  closes,             \* number of closeDatabaseConnection calls that reset client
  overlappedCloses    \* two closeDatabaseConnection calls awaited close() at once

storeVars == << documents, metadata, disableEmbeddings, procs, calls, failures >>

queryVars ==
  << requestQueue, isProcessingRequest, modelLoadingPromise, isModelLoaded,
     loadModelCalls, queries, arrived, startedQueries >>

\* the module-level state outside the document processor
connectionVars == << client, db, connectionCalls, clients, closes, overlappedCloses >>

moduleVars == << queryVars, connectionVars >>

vars == << storeVars, moduleVars >>

Idle ==
  [op |-> "idle", pc |-> "idle", call |-> 0,
   documentId |-> "", sessionId |-> "", text |-> << >>, source |-> "",
   query |-> << >>, topK |-> 0,
   chunks |-> << >>, chunksWithEmbeddings |-> << >>, inserted |-> 0,
   docMetadata |-> Null, documentChunks |-> << >>, queryEmbedding |-> Null,
   topChunks |-> << >>, context |-> << >>,
   error |-> "", cleanupFailed |-> FALSE, result |-> "",
   netRequests |-> 0, embeddingRequests |-> 0, storeOps |-> 0,
   thrown |-> "", lastEmbedding |-> Null, issued |-> 0, outstanding |-> 0,
   documents0 |-> << >>, metadata0 |-> << >>]

\* modelLoadingPromise = null; a promise is the number of its loadModel call
NoPromise == 0

\* a request that has not arrived yet
NoQuery ==
  [pc |-> "new", status |-> 0, runs |-> 0, awaits |-> 0, owner |-> FALSE,
   loadStep |-> FALSE, waited |-> FALSE]

\* route.ts lines 340-345: the module-level state as the module is loaded
InitQuery ==
  /\ requestQueue = << >>
  /\ isProcessingRequest = FALSE
  /\ modelLoadingPromise = NoPromise
  /\ isModelLoaded = FALSE
  /\ loadModelCalls = << >>
  /\ queries = [r \in Requests |-> NoQuery]
  /\ arrived = << >>
  /\ startedQueries = << >>

InitStore ==
  /\ documents = << >>
  /\ metadata = << >>
  /\ disableEmbeddings \in BOOLEAN
  /\ procs = [p \in Procs |-> Idle]
  /\ calls = 0
  /\ failures = 0

NoClient == 0

NoDb == Null

\* mongodb.ts lines 4-5: the module-level state as the module is loaded
InitConnection ==
  /\ client = NoClient
  /\ db = NoDb
  /\ connectionCalls = << >>
  /\ clients = << >>
  /\ closes = 0
  /\ overlappedCloses = FALSE

Init == InitStore /\ InitQuery /\ InitConnection

\* a store operation succeeds (TRUE) or fails with a connectivity error
StoreOutcomes == IF failures < MaxStoreFailures THEN BOOLEAN ELSE {TRUE}

Counted(ok) == failures' = failures + (IF ok THEN 0 ELSE 1)

Begin(p, rec) ==
  /\ procs[p].pc = "idle"
  /\ calls < MaxCalls
  /\ calls' = calls + 1
  /\ procs' = [procs EXCEPT ![p] = [rec EXCEPT !.call = calls + 1,
                                               !.documents0 = documents,
                                               !.metadata0 = metadata]]

\* a call issues an operation on the store (getCollections included)
Stored(rec) == [rec EXCEPT !.storeOps = @ + 1]

\* a call returns to its caller
Finish(rec, outcome) == [rec EXCEPT !.pc = "done", !.result = outcome]

\* a call throws err to its caller
Throw(rec, err) == [rec EXCEPT !.pc = "done", !.result = "error", !.error = err]

(***************************************************************************)
(* processDocument                                                         *)
(***************************************************************************)
CallProcessDocument(p, in) ==
  \E key \in in.keys, src \in Sources : \E t \in in.texts[key] :
    /\ Begin(p, [Idle EXCEPT !.op = "processDocument", !.pc = "ensureModelLoaded",
                             !.documentId = key[1], !.text = t, !.source = src,
                             !.sessionId = key[2]])
    /\ UNCHANGED << documents, metadata, disableEmbeddings, failures, moduleVars >>

\* ensureModelLoaded: GET /models, then POST /chat/completions unless the
\* model is listed; every failure is logged and swallowed
EnsureModelLoaded(p) ==
  /\ procs[p].op = "processDocument" /\ procs[p].pc = "ensureModelLoaded"
  /\ procs' = [procs EXCEPT ![p].pc = "validate", ![p].netRequests = 1]
  /\ UNCHANGED << documents, metadata, disableEmbeddings, calls, failures, moduleVars >>

\* lines 81-118: the error the checks before generateEmbeddings throw, or ""
ProcessDocumentError(documentId, text, source) ==
  IF documentId = "" THEN "Invalid document ID provided"
  ELSE IF text = << >> THEN "Invalid text content provided"
  ELSE IF source = "" THEN "Invalid source provided"
  ELSE IF StrLen(Trim(text)) = 0 THEN "Text content is empty"
  ELSE IF StrLen(text) > MaxTextLength THEN "Text content is too large. Maximum size is 1MB."
  ELSE IF StrLen(preprocessText(text)) = 0
  THEN "Text preprocessing resulted in empty content"
  ELSE IF Len(splitIntoChunks(preprocessText(text))) = 0
  THEN "Failed to split text into chunks"
  ELSE ""

\* the catch block of processDocument: remember the error, run cleanupDocument
Catch(rec, err) ==
  [rec EXCEPT !.pc = "cleanup:getCollections", !.error = err, !.thrown = err]

\* validation, preprocessing and chunking; with embeddings disabled also the
\* whole of generateEmbeddings, which then awaits nothing
ValidateAndChunk(p) ==
  /\ procs[p].op = "processDocument" /\ procs[p].pc = "validate"
  /\ LET r == procs[p]
         err == ProcessDocumentError(r.documentId, r.text, r.source)
         chunks == splitIntoChunks(preprocessText(r.text))
     IN procs' = [procs EXCEPT ![p] =
          IF err # "" THEN Catch(r, err)
          ELSE IF disableEmbeddings
          THEN [r EXCEPT !.pc = "getCollections", !.chunks = chunks,
                         !.chunksWithEmbeddings =
                           generateEmbeddingsDisabled(chunks, r.documentId,
                                                      r.source, r.sessionId)]
          ELSE [r EXCEPT !.pc = "embed", !.chunks = chunks]]
  /\ UNCHANGED << documents, metadata, disableEmbeddings, calls, failures, moduleVars >>

\* a loop that goes on to the next chunk without awaiting createEmbedding
EmbeddingNotAwaited(rec) == rec

\* line 374: the loop is suspended at its await until createEmbedding returns
AwaitEmbedding(rec) == [rec EXCEPT !.pc = "embed:await"]

\* an iteration of the sequential loop of generateEmbeddings begins:
\* createEmbedding(chunks[i]) is called and sends its request; issued counts
\* the iterations begun, outstanding the requests not yet answered
EmbedRequest(p) ==
  /\ procs[p].op = "processDocument" /\ procs[p].pc = "embed"
  /\ procs[p].issued < Len(procs[p].chunks)
  /\ procs' = [procs EXCEPT ![p] =
       AwaitEmbedding([@ EXCEPT !.issued = @ + 1, !.outstanding = @ + 1])]
  /\ UNCHANGED << documents, metadata, disableEmbeddings, calls, failures, moduleVars >>

\* the iteration ends: the request is answered, createEmbedding returns (the
\* provider's vector or the fallback's) and the chunk is pushed
EmbedChunk(p) ==
  /\ procs[p].op = "processDocument" /\ procs[p].pc = "embed:await"
  /\ \E outcome \in EmbedOutcomes :
       LET r == [procs[p] EXCEPT !.outstanding = @ - 1]
           i == Len(r.chunksWithEmbeddings)
           e == createEmbedding(r.chunks[i + 1], disableEmbeddings, outcome,
                                ProviderAnswer(r.chunks[i + 1]))
           pushed == Append(r.chunksWithEmbeddings,
                            MakeChunk(r.documentId, i, r.chunks[i + 1], e.embedding,
                                      r.source, r.sessionId))
           counted == [r EXCEPT !.embeddingRequests =
                                  @ + (IF e.requested THEN 1 ELSE 0),
                                !.lastEmbedding =
                                  [text |-> r.chunks[i + 1], answered |-> outcome = "ok",
                                   embedding |-> e.embedding, raised |-> e.raised,
                                   requested |-> e.requested]]
       IN procs' = [procs EXCEPT ![p] =
            IF e.raised
            THEN Catch(counted, "Failed to create embedding using both primary and fallback methods")
            ELSE IF i + 1 < Len(r.chunks)
            THEN [counted EXCEPT !.chunksWithEmbeddings = pushed, !.pc = "embed"]
            ELSE [counted EXCEPT !.chunksWithEmbeddings = pushed,
                                 !.pc = "getCollections"]]
  /\ UNCHANGED << documents, metadata, disableEmbeddings, calls, failures, moduleVars >>

\* getCollections of processDocument (connectToDatabase may throw)
ProcessGetCollections(p) ==
  /\ procs[p].op = "processDocument" /\ procs[p].pc = "getCollections"
  /\ \E ok \in StoreOutcomes :
       /\ Counted(ok)
       /\ procs' = [procs EXCEPT ![p] =
            IF ok THEN [Stored(@) EXCEPT !.pc = "insertMany"] ELSE Catch(Stored(@), StoreError)]
  /\ UNCHANGED << documents, metadata, disableEmbeddings, calls, moduleVars >>

\* the _id the driver gives a document it inserts
WithObjectId(doc, oid) == doc @@ ("oid" :> oid)

\* documents.insertMany(chunksWithEmbeddings): the server inserts the batch
\* one document at a time, in order, and stops at the first failure
InsertManyStep(p) ==
  /\ procs[p].op = "processDocument" /\ procs[p].pc = "insertMany"
  /\ \E ok \in StoreOutcomes :
       /\ Counted(ok)
       /\ LET r == IF procs[p].inserted = 0 THEN Stored(procs[p]) ELSE procs[p] IN
          IF ok
          THEN /\ documents' = Append(documents,
                    WithObjectId(r.chunksWithEmbeddings[r.inserted + 1],
                                 << r.call, r.inserted >>))
               /\ procs' = [procs EXCEPT ![p] =
                    [r EXCEPT !.inserted = r.inserted + 1,
                              !.pc = IF r.inserted + 1 = Len(r.chunksWithEmbeddings)
                                     THEN "insertOne" ELSE "insertMany"]]
          ELSE /\ documents' = documents
               /\ procs' = [procs EXCEPT ![p] = Catch(r, StoreError)]
  /\ UNCHANGED << metadata, disableEmbeddings, calls, moduleVars >>

\* metadata.insertOne({documentId, sessionId, source, processedAt, chunkCount})
InsertOneMetadata(p) ==
  /\ procs[p].op = "processDocument" /\ procs[p].pc = "insertOne"
  /\ \E ok \in StoreOutcomes :
       /\ Counted(ok)
       /\ LET r == Stored(procs[p]) IN
          IF ok
          THEN /\ metadata' = Append(metadata,
                    WithObjectId(
                      [documentId |-> r.documentId, sessionId |-> r.sessionId,
                       source |-> r.source, processedAt |-> calls,
                       chunkCount |-> Len(r.chunksWithEmbeddings)],
                      << r.call >>))
               /\ procs' = [procs EXCEPT ![p] = Finish(r, "ok")]
          ELSE /\ metadata' = metadata
               /\ procs' = [procs EXCEPT ![p] = Catch(r, StoreError)]
  /\ UNCHANGED << documents, disableEmbeddings, calls, moduleVars >>

(***************************************************************************)
(* cleanupDocument, called by its route and by the catch block of          *)
(* processDocument (which logs and swallows what cleanupDocument throws    *)
(* and rethrows the original error)                                        *)
(***************************************************************************)
CallCleanupDocument(p, in) ==
  \E key \in in.keys :
    /\ Begin(p, [Idle EXCEPT !.op = "cleanupDocument", !.pc = "cleanup:getCollections",
                             !.documentId = key[1], !.sessionId = key[2]])
    /\ UNCHANGED << documents, metadata, disableEmbeddings, failures, moduleVars >>

\* a catch block that lets the error of cleanupDocument replace the original
CleanupThrowsMasking(rec) ==
  [rec EXCEPT !.pc = "done", !.result = "error", !.error = StoreError,
              !.cleanupFailed = TRUE]

\* cleanupDocument throws: to the route, or into the catch of processDocument
CleanupThrows(rec) ==
  IF rec.op = "processDocument"
  THEN [rec EXCEPT !.pc = "done", !.result = "error", !.cleanupFailed = TRUE]
  ELSE Throw(rec, StoreError)

\* cleanupDocument returns
CleanupReturns(rec) ==
  IF rec.op = "processDocument"
  THEN [rec EXCEPT !.pc = "done", !.result = "error"]
  ELSE Finish(rec, "ok")

CleanupGetCollections(p) ==
  /\ procs[p].pc = "cleanup:getCollections"
  /\ \E ok \in StoreOutcomes :
       /\ Counted(ok)
       /\ procs' = [procs EXCEPT ![p] =
            IF ok THEN [Stored(@) EXCEPT !.pc = "cleanup:deleteMany"] ELSE CleanupThrows(Stored(@))]
  /\ UNCHANGED << documents, metadata, disableEmbeddings, calls, moduleVars >>

CleanupDeleteMany(p) ==
  /\ procs[p].pc = "cleanup:deleteMany"
  /\ \E ok \in StoreOutcomes :
       /\ Counted(ok)
       /\ LET r == Stored(procs[p]) IN
          IF ok
          THEN /\ documents' = deleteManyChunks(documents, r.documentId, r.sessionId)
               /\ procs' = [procs EXCEPT ![p] = [r EXCEPT !.pc = "cleanup:deleteOne"]]
          ELSE /\ documents' = documents
               /\ procs' = [procs EXCEPT ![p] = CleanupThrows(r)]
  /\ UNCHANGED << metadata, disableEmbeddings, calls, moduleVars >>

CleanupDeleteOne(p) ==
  /\ procs[p].pc = "cleanup:deleteOne"
  /\ \E ok \in StoreOutcomes :
       /\ Counted(ok)
       /\ LET r == Stored(procs[p]) IN
          IF ok
          THEN /\ metadata' = deleteOneMetadata(metadata, r.documentId, r.sessionId)
               /\ procs' = [procs EXCEPT ![p] = CleanupReturns(r)]
          ELSE /\ metadata' = metadata
               /\ procs' = [procs EXCEPT ![p] = CleanupThrows(r)]
  /\ UNCHANGED << documents, disableEmbeddings, calls, moduleVars >>

(***************************************************************************)
(* cleanupSession                                                          *)
(***************************************************************************)
CallCleanupSession(p, in) ==
  \E s \in in.sessions :
    /\ Begin(p, [Idle EXCEPT !.op = "cleanupSession", !.pc = "session:getCollections",
                             !.sessionId = s])
    /\ UNCHANGED << documents, metadata, disableEmbeddings, failures, moduleVars >>

SessionGetCollections(p) ==
  /\ procs[p].pc = "session:getCollections"
  /\ \E ok \in StoreOutcomes :
       /\ Counted(ok)
       /\ procs' = [procs EXCEPT ![p] =
            IF ok THEN [Stored(@) EXCEPT !.pc = "session:deleteDocuments"] ELSE Throw(Stored(@), StoreError)]
  /\ UNCHANGED << documents, metadata, disableEmbeddings, calls, moduleVars >>

SessionDeleteDocuments(p) ==
  /\ procs[p].pc = "session:deleteDocuments"
  /\ \E ok \in StoreOutcomes :
       /\ Counted(ok)
       /\ LET r == Stored(procs[p]) IN
          IF ok
          THEN /\ documents' = deleteManySessionChunks(documents, r.sessionId)
               /\ procs' = [procs EXCEPT ![p] = [r EXCEPT !.pc = "session:deleteMetadata"]]
          ELSE /\ documents' = documents
               /\ procs' = [procs EXCEPT ![p] = Throw(r, StoreError)]
  /\ UNCHANGED << metadata, disableEmbeddings, calls, moduleVars >>

SessionDeleteMetadata(p) ==
  /\ procs[p].pc = "session:deleteMetadata"
  /\ \E ok \in StoreOutcomes :
       /\ Counted(ok)
       /\ LET r == Stored(procs[p]) IN
          IF ok
          THEN /\ metadata' = deleteManySessionMetadata(metadata, r.sessionId)
               /\ procs' = [procs EXCEPT ![p] = Finish(r, "ok")]
          ELSE /\ metadata' = metadata
               /\ procs' = [procs EXCEPT ![p] = Throw(r, StoreError)]
  /\ UNCHANGED << documents, disableEmbeddings, calls, moduleVars >>

(***************************************************************************)
(* retrieveContext                                                         *)
(***************************************************************************)
\* a retrieveContext without the input validation
RetrieveContextUnchecked(documentId, query, topK) == ""

\* lines 174-188: the error the input validation throws, or ""
RetrieveContextError(documentId, query, topK) ==
  IF documentId = "" THEN "Invalid document ID provided"
  ELSE IF query = << >> THEN "Invalid query provided"
  ELSE IF StrLen(Trim(query)) = 0 THEN "Query cannot be empty"
  ELSE IF topK < 1 \/ topK > MaxTopK THEN "topK must be between 1 and 20"
  ELSE ""

\* the call with its synchronous validation, up to the first await
CallRetrieveContext(p, in) ==
  \E key \in in.queryKeys, q \in in.queries, k \in in.topKs :
    LET rec == [Idle EXCEPT !.op = "retrieveContext", !.pc = "retrieve:getCollections",
                            !.documentId = key[1], !.query = q, !.topK = k,
                            !.sessionId = key[2]]
        err == RetrieveContextError(key[1], q, k)
    IN /\ Begin(p, IF err # "" THEN Throw(rec, err) ELSE rec)
       /\ UNCHANGED << documents, metadata, disableEmbeddings, failures, moduleVars >>

RetrieveGetCollections(p) ==
  /\ procs[p].pc = "retrieve:getCollections"
  /\ \E ok \in StoreOutcomes :
       /\ Counted(ok)
       /\ procs' = [procs EXCEPT ![p] =
            IF ok THEN [Stored(@) EXCEPT !.pc = "retrieve:findOne"] ELSE Throw(Stored(@), StoreError)]
  /\ UNCHANGED << documents, metadata, disableEmbeddings, calls, moduleVars >>

\* lines 200-209: metadata.findOne and the check for the document
RetrieveFindOne(p) ==
  /\ procs[p].pc = "retrieve:findOne"
  /\ \E ok \in StoreOutcomes :
       /\ Counted(ok)
       /\ LET r == Stored(procs[p])
              docMetadata == findOneMetadata(metadata, r.documentId, r.sessionId)
          IN procs' = [procs EXCEPT ![p] =
               IF ~ok THEN Throw(r, StoreError)
               ELSE IF DocumentNotProcessed(docMetadata) THEN Throw(r, NotFound)
               ELSE [r EXCEPT !.pc = "retrieve:find", !.docMetadata = docMetadata]]
  /\ UNCHANGED << documents, metadata, disableEmbeddings, calls, moduleVars >>

\* lines 253-293: rank the chunks against the query vector, build the context
Rank(rec, queryEmbedding) ==
  LET topChunks == TopChunks(queryEmbedding, rec.documentChunks, rec.topK)
      context == Join([i \in 1..Len(topChunks) |-> topChunks[i].text], BlankLine)
      ranked == [rec EXCEPT !.queryEmbedding = queryEmbedding, !.topChunks = topChunks]
  IN IF Len(topChunks) = 0 THEN Throw(ranked, "No relevant chunks found for the query")
     ELSE IF context = << >> \/ StrLen(Trim(context)) = 0
     THEN Throw(ranked, "No meaningful context could be extracted")
     ELSE [Finish(ranked, "ok") EXCEPT !.context = context]

\* lines 211-239: documents.find, the check for chunks and, with embeddings
\* disabled, the synthetic query vector and the ranking
RetrieveFind(p) ==
  /\ procs[p].pc = "retrieve:find"
  /\ \E ok \in StoreOutcomes :
       /\ Counted(ok)
       /\ LET r == Stored(procs[p])
              documentChunks == findChunks(documents, r.documentId, r.sessionId)
              found == [r EXCEPT !.documentChunks = documentChunks]
          IN procs' = [procs EXCEPT ![p] =
               IF ~ok THEN Throw(r, StoreError)
               ELSE IF NoChunksFound(documentChunks) THEN Throw(r, NotFound)
               ELSE IF disableEmbeddings
               THEN Rank(found, createTextBasedEmbedding(r.query))
               ELSE [found EXCEPT !.pc = "retrieve:embed"]]
  /\ UNCHANGED << documents, metadata, disableEmbeddings, calls, moduleVars >>

\* lines 240-251: await createEmbedding(query), then the ranking
RetrieveEmbedQuery(p) ==
  /\ procs[p].pc = "retrieve:embed"
  /\ \E outcome \in EmbedOutcomes :
       LET r == procs[p]
           e == createEmbedding(r.query, disableEmbeddings, outcome,
                                ProviderAnswer(r.query))
           counted == [r EXCEPT !.embeddingRequests =
                                  @ + (IF e.requested THEN 1 ELSE 0),
                                !.lastEmbedding =
                                  [text |-> r.query, answered |-> outcome = "ok",
                                   embedding |-> e.embedding, raised |-> e.raised,
                                   requested |-> e.requested]]
       IN procs' = [procs EXCEPT ![p] =
            IF e.raised
            THEN Throw(counted, "Failed to process query for similarity search")
            ELSE IF VecLen(e.embedding) = 0
            THEN Throw(counted, "Failed to generate query embedding")
            ELSE Rank(counted, e.embedding)]
  /\ UNCHANGED << documents, metadata, disableEmbeddings, calls, failures, moduleVars >>

(***************************************************************************)
(* The environment and the specifications                                  *)
(***************************************************************************)
\* the caller takes the result of a finished call
Return(p) ==
  /\ procs[p].pc = "done"
  /\ procs' = [procs EXCEPT ![p] = Idle]
  /\ UNCHANGED << documents, metadata, disableEmbeddings, calls, failures, moduleVars >>

\* the server is restarted with another DISABLE_EMBEDDINGS; the collections
\* persist
Reconfigure ==
  /\ \A p \in Procs : procs[p].pc = "idle"
  /\ disableEmbeddings' = ~disableEmbeddings
  /\ UNCHANGED << documents, metadata, procs, calls, failures, moduleVars >>

\* a step of a call in flight: one that awaits the embedding provider
Embed(p) == EmbedRequest(p) \/ EmbedChunk(p) \/ RetrieveEmbedQuery(p)

\* a step of a call in flight: every other one
Proceed(p) ==
  \/ EnsureModelLoaded(p)
  \/ ValidateAndChunk(p)
  \/ ProcessGetCollections(p)
  \/ InsertManyStep(p)
  \/ InsertOneMetadata(p)
  \/ CleanupGetCollections(p)
  \/ CleanupDeleteMany(p)
  \/ CleanupDeleteOne(p)
  \/ SessionGetCollections(p)
  \/ SessionDeleteDocuments(p)
  \/ SessionDeleteMetadata(p)
  \/ RetrieveGetCollections(p)
  \/ RetrieveFindOne(p)
  \/ RetrieveFind(p)
  \/ Return(p)

Continue(p) == Embed(p) \/ Proceed(p)

\* the calls of the routes that read or delete
Use(p, in) ==
  \/ CallCleanupDocument(p, in)
  \/ CallCleanupSession(p, in)
  \/ CallRetrieveContext(p, in)

Step(p, in) == CallProcessDocument(p, in) \/ Use(p, in) \/ Continue(p)

\* one call at a time, each running to completion
Next == Reconfigure \/ Step(1, SequentialInputs)

Spec == Init /\ [][Next]_vars

\* one call at a time on one document of two chunks
NextDocument == Reconfigure \/ Step(1, DocumentInputs)

SpecDocument == Init /\ [][NextDocument]_vars

\* a server run with DISABLE_EMBEDDINGS=true, where no call awaits the
\* embedding provider: uploads, made one after another, interleave at their
\* awaits with the queries and cleanups, made one after another
InitConcurrent == Init /\ disableEmbeddings

NextConcurrent ==
  \/ CallProcessDocument(1, ConcurrentInputs)
  \/ Use(2, ConcurrentInputs)
  \/ \E p \in Procs : Proceed(p)

SpecConcurrent == InitConcurrent /\ [][NextConcurrent]_vars

\* lines 107 and 114 of processDocument on their own: splitIntoChunks applied
\* to a text as preprocessText returns it, and to a text as it is
SplitIntoChunks(p) ==
  /\ procs[p].pc = "idle"
  /\ \E t \in ChunkerTexts, cleaned \in BOOLEAN :
       LET text == IF cleaned THEN preprocessText(t) ELSE t
       IN procs' = [procs EXCEPT ![p] =
            [Finish(Idle, "ok") EXCEPT !.op = "splitIntoChunks", !.text = text,
                                       !.chunks = splitIntoChunks(text)]]
  /\ UNCHANGED << documents, metadata, disableEmbeddings, calls, failures, moduleVars >>

NextChunker == SplitIntoChunks(1) \/ Return(1)

\* the chunker alone, applied to every text of the bounded set
SpecChunker == Init /\ [][NextChunker]_vars

\* the vectors given to cosineSimilarity: of two lengths, entries 0 and 1,
\* the zero vectors among them
SimilarityVectors ==
  {Vec(dim, num, 1) : dim \in {ProviderDim - 1, ProviderDim},
                      num \in UNION {[1..d -> {0, 1}] : d \in {ProviderDim - 1, ProviderDim}}}

\* lines 254-271 applied to a query vector and one stored chunk
ScoreChunk(p) ==
  /\ procs[p].pc = "idle"
  /\ \E a, b \in {v \in SimilarityVectors : Len(v.num) = v.dim} :
       procs' = [procs EXCEPT ![p] =
         [Finish(Idle, "ok") EXCEPT
            !.op = "similarity", !.queryEmbedding = a,
            !.documentChunks = << MakeChunk("d1", 0, Str("a", 1), b, "f.pdf", "A") >>]]
  /\ UNCHANGED << documents, metadata, disableEmbeddings, calls, failures, moduleVars >>

NextSimilarity == ScoreChunk(1) \/ Return(1)

\* the scoring alone, applied to every pair of vectors of the bounded set
SpecSimilarity == Init /\ [][NextSimilarity]_vars

\* createTextBasedEmbedding applied to a text
CreateTextBasedEmbedding(p) ==
  /\ procs[p].pc = "idle"
  /\ \E t \in EmbeddingTexts :
       procs' = [procs EXCEPT ![p] =
         [Finish(Idle, "ok") EXCEPT !.op = "createTextBasedEmbedding", !.text = t,
                                    !.queryEmbedding = createTextBasedEmbedding(t)]]
  /\ UNCHANGED << documents, metadata, disableEmbeddings, calls, failures, moduleVars >>

NextEmbedding == CreateTextBasedEmbedding(1) \/ Return(1)

\* the synthetic embedding alone, applied to every text of the bounded set
SpecEmbedding == Init /\ [][NextEmbedding]_vars

(***************************************************************************)
(* The query route (src/app/api/status/route.ts, lines 44-449): POST, the  *)
(* request queue, processQuery, ensureModelLoaded and loadModel.  A step   *)
(* runs from one await to the next.                                        *)
(***************************************************************************)
\* a processQueue without the isProcessingRequest flag
QueueBusyUnguarded(processing, queue) == Len(queue) = 0

\* line 430: processQueue returns at once
QueueBusy(processing, queue) == processing \/ Len(queue) = 0

\* a queue served from its newest end (pop)
Pop(queue) == [request |-> queue[Len(queue)], rest |-> SubSeq(queue, 1, Len(queue) - 1)]

\* line 437: requestQueue.shift()
Shift(queue) == [request |-> Head(queue), rest |-> Tail(queue)]

\* lines 50-52: the queued closure is called and calls processQuery, which
\* runs up to its first await (request.json())
StartQuery(qs, r) == [qs EXCEPT ![r].pc = "json", ![r].runs = @ + 1]

\* lines 436-447: the loop of processQueue at its condition: the next
\* request is shifted and started, or the flag is reset and the loop ends
LoopOn(queue, qs) ==
  IF Len(queue) > 0
  THEN [queue |-> Shift(queue).rest, processing |-> TRUE,
        queries |-> StartQuery(qs, Shift(queue).request),
        started |-> << Shift(queue).request >>]
  ELSE [queue |-> queue, processing |-> FALSE, queries |-> qs, started |-> << >>]

\* lines 47-61: a POST arrives: its closure is pushed and processQueue is
\* called, which returns at once or becomes the running loop
Post(r) ==
  /\ queries[r].pc = "new"
  /\ r = Len(arrived) + 1
  /\ arrived' = Append(arrived, r)
  /\ LET pushed == Append(requestQueue, r)
         qs == [queries EXCEPT ![r].pc = "queued", ![r].waited = isProcessingRequest]
         loop == LoopOn(pushed, qs)
     IN IF QueueBusy(isProcessingRequest, pushed)
        THEN /\ requestQueue' = pushed
             /\ queries' = qs
             /\ UNCHANGED << isProcessingRequest, startedQueries >>
        ELSE /\ requestQueue' = loop.queue
             /\ queries' = loop.queries
             /\ isProcessingRequest' = TRUE
             /\ startedQueries' = startedQueries \o loop.started
  /\ UNCHANGED << storeVars, connectionVars, modelLoadingPromise, isModelLoaded, loadModelCalls >>

\* processQuery of request r returns a response with this status: the
\* closure resolves the POST, and the processQueue loop that awaited it goes on
Responds(r, status, qs) ==
  LET loop == LoopOn(requestQueue, [qs EXCEPT ![r].pc = "done", ![r].status = status])
  IN /\ requestQueue' = loop.queue
     /\ queries' = loop.queries
     /\ isProcessingRequest' = loop.processing
     /\ startedQueries' = startedQueries \o loop.started

\* processQuery goes on to its next await
GoesOn(qs) ==
  /\ queries' = qs
  /\ UNCHANGED << requestQueue, isProcessingRequest, startedQueries >>

\* lines 72-128: the body is parsed and validated; retrieveContext is called
ParseBody(r) ==
  /\ queries[r].pc = "json"
  /\ \E body \in {"unparsable", "missing", "blank", "valid"} :
       IF body = "valid" THEN GoesOn([queries EXCEPT ![r].pc = "retrieve"])
       ELSE Responds(r, 400, queries)
  /\ UNCHANGED << storeVars, connectionVars, modelLoadingPromise, isModelLoaded, loadModelCalls,
                  arrived >>

\* what ensureModelLoaded leaves in modelLoadingPromise when its await of
\* the load ends, had line 365 been in a finally block
PromiseCleared(promise, settled, owner) == IF owner THEN NoPromise ELSE promise

\* lines 363-365: modelLoadingPromise after the await of the load: line 365
\* is reached by the call that started the load, when the await did not throw
PromiseAfterAwait(promise, settled, owner) ==
  IF owner /\ settled = "fulfilled" THEN NoPromise ELSE promise

\* lines 129-163 and 348-364: retrieveContext returns or throws; with a
\* context, ensureModelLoaded is called and runs up to its await (with the
\* model loaded it returns, and the chat completion is requested)
RetrieveContextReturns(r) ==
  /\ queries[r].pc = "retrieve"
  /\ \E outcome \in {"throws", "empty", "context"} :
       LET reached == [queries EXCEPT ![r].loadStep = TRUE]
       IN IF outcome = "throws"
          THEN Responds(r, 500, queries) /\ UNCHANGED << modelLoadingPromise, loadModelCalls >>
          ELSE IF outcome = "empty"
          THEN Responds(r, 400, queries) /\ UNCHANGED << modelLoadingPromise, loadModelCalls >>
          ELSE IF isModelLoaded
          THEN /\ GoesOn([reached EXCEPT ![r].pc = "chat"])
               /\ UNCHANGED << modelLoadingPromise, loadModelCalls >>
          ELSE IF modelLoadingPromise # NoPromise
          THEN /\ GoesOn([reached EXCEPT ![r].pc = "load",
                                          ![r].awaits = modelLoadingPromise])
               /\ UNCHANGED << modelLoadingPromise, loadModelCalls >>
          ELSE /\ loadModelCalls' =
                    Append(loadModelCalls, [pc |-> "models", settled |-> "pending"])
               /\ modelLoadingPromise' = Len(loadModelCalls) + 1
               /\ GoesOn([reached EXCEPT ![r].pc = "load", ![r].owner = TRUE,
                                          ![r].awaits = Len(loadModelCalls) + 1])
  /\ UNCHANGED << storeVars, connectionVars, isModelLoaded, arrived >>

\* lines 378-396: GET /models is answered
LoadModelListed(k) ==
  /\ k \in DOMAIN loadModelCalls
  /\ loadModelCalls[k].pc = "models"
  /\ \E outcome \in {"listed", "not-listed", "not-ok", "network-error"} :
       /\ loadModelCalls' = [loadModelCalls EXCEPT ![k] =
            IF outcome = "listed" THEN [pc |-> "returned", settled |-> "fulfilled"]
            ELSE IF outcome = "network-error"
            THEN [pc |-> "returned", settled |-> "rejected"]
            ELSE [pc |-> "preload", settled |-> "pending"]]
       /\ isModelLoaded' = (isModelLoaded \/ outcome = "listed")
  /\ UNCHANGED << storeVars, connectionVars, requestQueue, isProcessingRequest, modelLoadingPromise,
                  queries, arrived, startedQueries >>

\* lines 399-425: the preload POST /chat/completions is answered
LoadModelPreloaded(k) ==
  /\ k \in DOMAIN loadModelCalls
  /\ loadModelCalls[k].pc = "preload"
  /\ \E outcome \in {"ok", "not-ok", "network-error"} :
       /\ loadModelCalls' = [loadModelCalls EXCEPT ![k] =
            [pc |-> "returned",
             settled |-> IF outcome = "ok" THEN "fulfilled" ELSE "rejected"]]
       /\ isModelLoaded' = (isModelLoaded \/ outcome = "ok")
  /\ UNCHANGED << storeVars, connectionVars, requestQueue, isProcessingRequest, modelLoadingPromise,
                  queries, arrived, startedQueries >>

\* lines 356-365 and 163: the await of the load ends in ensureModelLoaded:
\* it returns and the chat completion is requested, or it throws into the
\* catch of processQuery (lines 326-336, status 500)
ModelLoadSettled(r) ==
  /\ queries[r].pc = "load"
  /\ LET settled == loadModelCalls[queries[r].awaits].settled
     IN /\ settled # "pending"
        /\ modelLoadingPromise' =
             PromiseAfterAwait(modelLoadingPromise, settled, queries[r].owner)
        /\ IF settled = "fulfilled"
           THEN GoesOn([queries EXCEPT ![r].pc = "chat"])
           ELSE Responds(r, 500, queries)
  /\ UNCHANGED << storeVars, connectionVars, isModelLoaded, loadModelCalls, arrived >>

\* lines 165-274: POST /chat/completions is answered, or fails
ChatCompletion(r) ==
  /\ queries[r].pc = "chat"
  /\ \E outcome \in {"ok", "401", "429", "500", "timeout", "refused"} :
       IF outcome = "ok" THEN GoesOn([queries EXCEPT ![r].pc = "parse"])
       ELSE Responds(r, IF outcome = "401" THEN 401
                        ELSE IF outcome = "429" THEN 429
                        ELSE IF outcome = "500" THEN 502
                        ELSE IF outcome = "timeout" THEN 408
                        ELSE 503, queries)
  /\ UNCHANGED << storeVars, connectionVars, modelLoadingPromise, isModelLoaded, loadModelCalls,
                  arrived >>

\* lines 276-324: the body of the completion is parsed and answered with
ParseAnswer(r) ==
  /\ queries[r].pc = "parse"
  /\ \E outcome \in {"unparsable", "invalid", "empty", "answer"} :
       Responds(r, IF outcome = "answer" THEN 200
                   ELSE IF outcome = "empty" THEN 400
                   ELSE 502, queries)
  /\ UNCHANGED << storeVars, connectionVars, modelLoadingPromise, isModelLoaded, loadModelCalls,
                  arrived >>

\* a step of a processQuery call or of a loadModel call
ContinueQuery ==
  \/ \E r \in Requests :
       \/ ParseBody(r)
       \/ RetrieveContextReturns(r)
       \/ ModelLoadSettled(r)
       \/ ChatCompletion(r)
       \/ ParseAnswer(r)
  \/ \E k \in Requests : LoadModelListed(k) \/ LoadModelPreloaded(k)

NextQuery == (\E r \in Requests : Post(r)) \/ ContinueQuery

\* the query route under POST requests arriving at any time
SpecQuery == Init /\ [][NextQuery]_vars

\* the same, every processQuery call and every loadModel call going on to
\* its end
SpecQueryLive == SpecQuery /\ WF_vars(ContinueQuery)

(***************************************************************************)
(* The shared connection (mongodb.ts).  client and db are module-level;    *)
(* connectToDatabase awaits client.connect(), closeDatabaseConnection      *)
(* awaits client.close(), and other calls run during either wait.          *)
(***************************************************************************)
\* a guard that creates a MongoClient on every call
ClientMissingAlways(c) == TRUE

\* line 22: if (!client)
ClientMissing(c) == c = NoClient

\* client.db(name): the handle of the database on that client
ClientDb(c) == [client |-> c]

\* a call of mongodb.ts as it is made
NewCall ==
  [op |-> "", pc |-> "done", result |-> "", envSet |-> TRUE, dbAtCall |-> db,
   failedAtCall |-> Cardinality({k \in 1..Len(connectionCalls) :
                                   /\ connectionCalls[k].attempted
                                   /\ connectionCalls[k].result = "error"}),
   attempted |-> FALSE, instance |-> NoClient, returned |-> NoDb,
   dbBefore |-> NoDb, dbAfter |-> NoDb, closesAtReturn |-> 0]

\* lines 7-30: connectToDatabase up to the await of client.connect()
CallConnectToDatabase ==
  /\ Len(connectionCalls) < MaxConnectionCalls
  /\ \E envSet \in BOOLEAN :
       LET call == [NewCall EXCEPT !.op = "connectToDatabase", !.envSet = envSet]
       IN IF db # NoDb
          THEN /\ connectionCalls' = Append(connectionCalls,
                     [call EXCEPT !.result = "ok", !.returned = db, !.closesAtReturn = closes])
               /\ UNCHANGED << client, clients >>
          ELSE IF ~envSet
          THEN /\ connectionCalls' = Append(connectionCalls, [call EXCEPT !.result = "error"])
               /\ UNCHANGED << client, clients >>
          ELSE /\ IF ClientMissing(client)
                  THEN /\ client' = Len(clients) + 1
                       /\ clients' = Append(clients, "open")
                  ELSE UNCHANGED << client, clients >>
               /\ connectionCalls' = Append(connectionCalls,
                     [call EXCEPT !.pc = "connect", !.attempted = TRUE, !.instance = client'])
  /\ UNCHANGED << db, closes, overlappedCloses, storeVars, queryVars >>

\* lines 30-41: client.connect() settles; db = client.db(...) reads the
\* module-level client, which a closeDatabaseConnection call may have reset
ConnectSettles(k) ==
  /\ k \in 1..Len(connectionCalls)
  /\ connectionCalls[k].op = "connectToDatabase" /\ connectionCalls[k].pc = "connect"
  /\ \E ok \in BOOLEAN :
       /\ db' = IF ok /\ client # NoClient THEN ClientDb(client) ELSE db
       /\ connectionCalls' = [connectionCalls EXCEPT ![k] =
            [@ EXCEPT !.pc = "done",
                      !.result = IF ok /\ client # NoClient THEN "ok" ELSE "error",
                      !.returned = IF ok /\ client # NoClient THEN db' ELSE NoDb,
                      !.dbBefore = db, !.dbAfter = db', !.closesAtReturn = closes]]
  /\ UNCHANGED << client, clients, closes, overlappedCloses, storeVars, queryVars >>

\* lines 44-46: closeDatabaseConnection up to the await of client.close()
CallCloseDatabaseConnection ==
  /\ Len(connectionCalls) < MaxConnectionCalls
  /\ LET call == [NewCall EXCEPT !.op = "closeDatabaseConnection"]
     IN IF client = NoClient
        THEN /\ connectionCalls' = Append(connectionCalls, [call EXCEPT !.result = "ok"])
             /\ UNCHANGED overlappedCloses
        ELSE /\ connectionCalls' = Append(connectionCalls,
                   [call EXCEPT !.pc = "close", !.instance = client])
             /\ overlappedCloses' =
                   (overlappedCloses \/ \E k \in 1..Len(connectionCalls) :
                                          connectionCalls[k].pc = "close")
  /\ UNCHANGED << client, db, clients, closes, storeVars, queryVars >>

\* lines 46-49: client.close() settles; client and db are reset unless it threw
CloseSettles(k) ==
  /\ k \in 1..Len(connectionCalls)
  /\ connectionCalls[k].op = "closeDatabaseConnection" /\ connectionCalls[k].pc = "close"
  /\ \E ok \in BOOLEAN :
       IF ok
       THEN /\ client' = NoClient
            /\ db' = NoDb
            /\ clients' = [clients EXCEPT ![connectionCalls[k].instance] = "closed"]
            /\ closes' = closes + 1
            /\ connectionCalls' = [connectionCalls EXCEPT ![k] =
                 [@ EXCEPT !.pc = "done", !.result = "ok", !.dbBefore = db, !.dbAfter = NoDb]]
       ELSE /\ connectionCalls' = [connectionCalls EXCEPT ![k] =
                 [@ EXCEPT !.pc = "done", !.result = "error", !.dbBefore = db, !.dbAfter = db]]
            /\ UNCHANGED << client, db, clients, closes >>
  /\ UNCHANGED << overlappedCloses, storeVars, queryVars >>

ConnectionCalls == 1..MaxConnectionCalls

NextConnection ==
  \/ CallConnectToDatabase
  \/ CallCloseDatabaseConnection
  \/ \E k \in ConnectionCalls : ConnectSettles(k) \/ CloseSettles(k)

\* the module under connectToDatabase and closeDatabaseConnection calls made
\* at any time
SpecConnection == Init /\ [][NextConnection]_vars

TypeOK ==
  /\ calls \in 0..MaxCalls
  /\ disableEmbeddings \in BOOLEAN
  /\ \A p \in Procs : procs[p].pc = "idle" <=> procs[p].op = "idle"

(***************************************************************************)
(* Properties                                                              *)
(***************************************************************************)
Texts(chunks) == [i \in 1..Len(chunks) |-> chunks[i].text]

\* what the store holds for the pair (documentId, sessionId)
HoldsNothing(docs, metas, documentId, sessionId) ==
  /\ Len(findChunks(docs, documentId, sessionId)) = 0
  /\ findOneMetadata(metas, documentId, sessionId) = Null

\* C1: the chunks a retrieveContext call of session B reads, ranks and returns
\* the text of are all chunks stored under session B, whatever other sessions
\* hold under the same documentId.
SessionIsolation ==
  \A p \in Procs :
    procs[p].op = "retrieveContext" =>
      /\ \A i \in 1..Len(procs[p].documentChunks) :
            procs[p].documentChunks[i].metadata.sessionId = procs[p].sessionId
      /\ \A i \in 1..Len(procs[p].topChunks) :
            procs[p].topChunks[i].metadata.sessionId = procs[p].sessionId
      /\ procs[p].result = "ok" =>
            procs[p].context = Join(Texts(procs[p].topChunks), BlankLine)

\* a retrieval that returned a context while another session holds chunks
\* under the same documentId
SessionIsolationWitness ==
  \E p \in Procs :
    /\ procs[p].op = "retrieveContext"
    /\ procs[p].result = "ok"
    /\ \E i \in 1..Len(documents) :
         /\ documents[i].metadata.documentId = procs[p].documentId
         /\ documents[i].metadata.sessionId # procs[p].sessionId

\* C2: after a processDocument call that failed and whose cleanup did not
\* fail, the store holds no chunk and no metadata record of the pair; after
\* one that succeeded it holds the metadata record and all the chunks.
IngestAllOrNothing ==
  \A p \in Procs :
    (procs[p].op = "processDocument" /\ procs[p].pc = "done") =>
      IF procs[p].result = "ok"
      THEN /\ findOneMetadata(metadata, procs[p].documentId, procs[p].sessionId) # Null
           /\ \A i \in 1..Len(procs[p].chunksWithEmbeddings) :
                \E j \in 1..Len(documents) :
                  documents[j] = WithObjectId(procs[p].chunksWithEmbeddings[i],
                                              << procs[p].call, i - 1 >>)
      ELSE ~procs[p].cleanupFailed =>
             HoldsNothing(documents, metadata, procs[p].documentId, procs[p].sessionId)

\* every pair has at most one metadata record, and its chunkCount is the
\* number of chunks stored for the pair
MetadataInvariant(docs, metas) ==
  \A i \in 1..Len(metas) :
    /\ \A j \in 1..Len(metas) :
         MetaMatches(metas[j], metas[i].documentId, metas[i].sessionId) => j = i
    /\ metas[i].chunkCount =
         Len(findChunks(docs, metas[i].documentId, metas[i].sessionId))

ChunksOfCall(chunks, call) == {i \in 1..Len(chunks) : chunks[i].oid[1] = call}

\* a retrieveContext r of the pair of a processDocument p, called before p
\* has stored its metadata record, its last step
Overlap(r, p) ==
  /\ procs[r].op = "retrieveContext"
  /\ procs[p].op = "processDocument"
  /\ procs[r].documentId = procs[p].documentId
  /\ procs[r].sessionId = procs[p].sessionId
  /\ \A i \in 1..Len(procs[r].metadata0) : procs[r].metadata0[i].oid[1] # procs[p].call

\* C4 as stated: a retrieveContext that runs while a processDocument of the
\* same pair runs finds none of the chunks of that ingestion or all of them,
\* never some of them.
NeverPartiallyVisible ==
  \A r, p \in Procs :
    Overlap(r, p) =>
      \/ ChunksOfCall(procs[r].documentChunks, procs[p].call) = {}
      \/ Cardinality(ChunksOfCall(procs[r].documentChunks, procs[p].call))
           = Len(procs[p].chunksWithEmbeddings)

\* C5: the chunks stored for one (documentId, sessionId) all have embeddings of
\* one length, and the query vector a retrieveContext call ranks them
\* against has that length too.
DimensionalConsistency ==
  /\ \A i, j \in 1..Len(documents) :
       ChunkMatches(documents[j], documents[i].metadata.documentId,
                    documents[i].metadata.sessionId)
         => VecLen(documents[j].embedding) = VecLen(documents[i].embedding)
  /\ \A p \in Procs :
       (procs[p].op = "retrieveContext" /\ procs[p].queryEmbedding # Null) =>
         \A i \in 1..Len(procs[p].documentChunks) :
           VecLen(procs[p].documentChunks[i].embedding)
             = VecLen(procs[p].queryEmbedding)

\* the createEmbedding calls whose request was not answered with a vector
NotAnswered(le) ==
  /\ le # Null
  /\ le.text # << >>
  /\ ~(le.requested /\ le.answered)

\* C6 as stated: whatever the outcome of the request, createEmbedding raises
\* nothing and returns the 384-length synthetic vector of the text it was
\* given.
EmbeddingNeverBlocks ==
  \A p \in Procs :
    NotAnswered(procs[p].lastEmbedding) =>
      /\ ~procs[p].lastEmbedding.raised
      /\ VecLen(procs[p].lastEmbedding.embedding) = EmbeddingSize
      /\ procs[p].lastEmbedding.embedding
           = createTextBasedEmbedding(procs[p].lastEmbedding.text)

\* C6, amended: whatever the outcome of the request, createEmbedding raises
\* nothing and returns the 384-length synthetic vector of the first 8000
\* characters of the text it was given (of the whole text when it is no
\* longer than that).
EmbeddingNeverBlocksTruncated ==
  \A p \in Procs :
    NotAnswered(procs[p].lastEmbedding) =>
      /\ ~procs[p].lastEmbedding.raised
      /\ VecLen(procs[p].lastEmbedding.embedding) = EmbeddingSize
      /\ procs[p].lastEmbedding.embedding
           = createTextBasedEmbedding(
               Substring0(procs[p].lastEmbedding.text, MaxEmbedChars))

\* a failed request for a text of more than 8000 characters
EmbeddingNeverBlocksWitness ==
  \E p \in Procs :
    /\ NotAnswered(procs[p].lastEmbedding)
    /\ procs[p].lastEmbedding.requested
    /\ StrLen(procs[p].lastEmbedding.text) > MaxEmbedChars
    /\ procs[p].pc = "done"

\* C7: a retrieveContext call with a valid query and topK, made when the
\* store holds no metadata record or no chunk for the pair and answered by
\* the store, fails with the document-not-found error and makes no embedding
\* request.
MissingDocumentNotFound ==
  \A p \in Procs :
    LET r == procs[p]
    IN (/\ r.op = "retrieveContext"
        /\ r.pc = "done"
        /\ RetrieveContextError(r.documentId, r.query, r.topK) = ""
        /\ r.error # StoreError
        /\ \/ \A i \in 1..Len(r.metadata0) :
                ~MetaMatches(r.metadata0[i], r.documentId, r.sessionId)
           \/ \A i \in 1..Len(r.documents0) :
                ~ChunkMatches(r.documents0[i], r.documentId, r.sessionId))
       => /\ r.result = "error"
          /\ r.error = NotFound
          /\ r.embeddingRequests = 0

\* a retrieval of a document that only another session holds
MissingDocumentNotFoundWitness ==
  \E p \in Procs :
    /\ procs[p].op = "retrieveContext"
    /\ procs[p].pc = "done"
    /\ procs[p].error = NotFound
    /\ \E i \in 1..Len(metadata) :
         /\ metadata[i].documentId = procs[p].documentId
         /\ metadata[i].sessionId # procs[p].sessionId
    /\ \E i \in 1..Len(documents) :
         /\ documents[i].metadata.documentId = procs[p].documentId
         /\ documents[i].metadata.sessionId # procs[p].sessionId

\* C8: after a cleanupDocument call that returned without error, the store
\* holds no chunk and no metadata record of the pair.
CleanupDocumentRemovesAll ==
  \A p \in Procs :
    (procs[p].op = "cleanupDocument" /\ procs[p].pc = "done"
       /\ procs[p].result = "ok") =>
      /\ \A i \in 1..Len(documents) :
           ~ChunkMatches(documents[i], procs[p].documentId, procs[p].sessionId)
      /\ \A i \in 1..Len(metadata) :
           ~MetaMatches(metadata[i], procs[p].documentId, procs[p].sessionId)

\* C9: after a cleanupSession call that returned without error, no chunk and
\* no metadata record carries the sessionId, listDocuments of the session is
\* empty, and the lookup retrieveContext starts with finds no document of the
\* session.
CleanupSessionRemovesAll ==
  \A p \in Procs :
    (procs[p].op = "cleanupSession" /\ procs[p].pc = "done"
       /\ procs[p].result = "ok") =>
      /\ \A i \in 1..Len(documents) :
           documents[i].metadata.sessionId # procs[p].sessionId
      /\ \A i \in 1..Len(metadata) : metadata[i].sessionId # procs[p].sessionId
      /\ listDocuments(metadata, procs[p].sessionId) = << >>
      /\ \A i \in 1..Len(procs[p].metadata0) :
           procs[p].metadata0[i].sessionId = procs[p].sessionId =>
             DocumentNotProcessed(findOneMetadata(metadata,
                 procs[p].metadata0[i].documentId, procs[p].sessionId))

\* a session of two documents cleaned up while another session holds one
CleanupSessionRemovesAllWitness ==
  \E p \in Procs :
    /\ procs[p].op = "cleanupSession"
    /\ procs[p].pc = "done"
    /\ procs[p].result = "ok"
    /\ Len(listDocuments(procs[p].metadata0, procs[p].sessionId)) = 2
    /\ \E i \in 1..Len(procs[p].documents0) :
         procs[p].documents0[i].metadata.sessionId = procs[p].sessionId

\* the records of a collection that a filter leaves out
Range(coll) == {coll[i] : i \in 1..Len(coll)}

\* C10: during and after a cleanupDocument(d, s) call the chunks and metadata
\* records of every other pair are those the store held when the call was
\* made; during and after a cleanupSession(s) call, those of every other
\* session.
DeletionsScoped ==
  \A p \in Procs :
    LET r == procs[p]
    IN /\ r.op = "cleanupDocument" =>
            /\ {c \in Range(documents) : ~(c.metadata.documentId = r.documentId
                                             /\ c.metadata.sessionId = r.sessionId)}
                 = {c \in Range(r.documents0) :
                      ~(c.metadata.documentId = r.documentId
                        /\ c.metadata.sessionId = r.sessionId)}
            /\ {m \in Range(metadata) : ~(m.documentId = r.documentId
                                           /\ m.sessionId = r.sessionId)}
                 = {m \in Range(r.metadata0) : ~(m.documentId = r.documentId
                                                 /\ m.sessionId = r.sessionId)}
       /\ r.op = "cleanupSession" =>
            /\ {c \in Range(documents) : c.metadata.sessionId # r.sessionId}
                 = {c \in Range(r.documents0) : c.metadata.sessionId # r.sessionId}
            /\ {m \in Range(metadata) : m.sessionId # r.sessionId}
                 = {m \in Range(r.metadata0) : m.sessionId # r.sessionId}

\* a document cleaned up while another session holds the same documentId
DeletionsScopedWitness ==
  \E p \in Procs :
    /\ procs[p].op = "cleanupDocument"
    /\ procs[p].pc = "done"
    /\ procs[p].result = "ok"
    /\ Len(documents) < Len(procs[p].documents0)
    /\ Len(metadata) < Len(procs[p].metadata0)
    /\ \E i \in 1..Len(documents) :
         documents[i].metadata.documentId = procs[p].documentId
    /\ \E i \in 1..Len(metadata) : metadata[i].documentId = procs[p].documentId

\* C11: the deletes of a cleanupDocument(d, s) call made right after a
\* cleanupDocument(d, s) call has returned without error change nothing; a
\* cleanupDocument call for a pair that holds nothing, and a cleanupSession
\* call for a session that holds nothing, leave the store as it was and
\* return without error when the store answers.
CleanupIdempotent ==
  \A p \in Procs :
    LET r == procs[p]
    IN /\ (r.op = "cleanupDocument" /\ r.pc = "done" /\ r.result = "ok") =>
            /\ deleteManyChunks(documents, r.documentId, r.sessionId) = documents
            /\ deleteOneMetadata(metadata, r.documentId, r.sessionId) = metadata
       /\ (/\ r.op = "cleanupDocument"
           /\ r.pc = "done"
           /\ HoldsNothing(r.documents0, r.metadata0, r.documentId, r.sessionId)) =>
            /\ documents = r.documents0
            /\ metadata = r.metadata0
            /\ r.result = "ok" \/ r.error = StoreError
       /\ (/\ r.op = "cleanupSession"
           /\ r.pc = "done"
           /\ \A c \in Range(r.documents0) : c.metadata.sessionId # r.sessionId
           /\ \A m \in Range(r.metadata0) : m.sessionId # r.sessionId) =>
            /\ documents = r.documents0
            /\ metadata = r.metadata0
            /\ r.result = "ok" \/ r.error = StoreError

\* C12: while a retrieveContext or a processDocument call runs, and after it,
\* every metadata record the store held when the call was made is still
\* there, and so is every chunk of the pair of such a record: only
\* cleanupDocument and cleanupSession remove what an ingestion has stored.
StoredDocumentsImmutable ==
  \A p \in Procs :
    LET r == procs[p]
    IN r.op \in {"retrieveContext", "processDocument"} =>
         \A m \in Range(r.metadata0) :
           /\ m \in Range(metadata)
           /\ \A c \in Range(r.documents0) :
                ChunkMatches(c, m.documentId, m.sessionId) => c \in Range(documents)

\* C13: a processDocument call with an empty documentId, text or source, a
\* whitespace-only text or a text of more than 1,000,000 characters issues no
\* network request and no store operation, and ends with the error of the
\* validation.
IngestValidationFailsFast ==
  \A p \in Procs :
    LET r == procs[p]
    IN (/\ r.op = "processDocument"
        /\ \/ r.documentId = ""
           \/ r.text = << >>
           \/ r.source = ""
           \/ StrLen(Trim(r.text)) = 0
           \/ StrLen(r.text) > MaxTextLength) =>
         /\ r.netRequests = 0
         /\ r.embeddingRequests = 0
         /\ r.storeOps = 0
         /\ r.pc = "done" =>
              /\ r.result = "error"
              /\ r.error = ProcessDocumentError(r.documentId, r.text, r.source)

\* C14: a retrieveContext call with an empty documentId, an empty or
\* whitespace-only query, or a topK below 1 or above 20 ends at once with the
\* error of the validation, having issued no store operation, no embedding
\* request and no other network request.
RetrievalValidationFailsFast ==
  \A p \in Procs :
    LET r == procs[p]
    IN (/\ r.op = "retrieveContext"
        /\ \/ r.documentId = ""
           \/ r.query = << >>
           \/ StrLen(Trim(r.query)) = 0
           \/ r.topK < 1
           \/ r.topK > MaxTopK) =>
         /\ r.pc = "done"
         /\ r.result = "error"
         /\ r.error \in {"Invalid document ID provided", "Invalid query provided",
                          "Query cannot be empty", "topK must be between 1 and 20"}
         /\ r.storeOps = 0
         /\ r.embeddingRequests = 0
         /\ r.netRequests = 0

\* a retrieval with a topK above 20 rejected while the store holds the document
RetrievalValidationFailsFastWitness ==
  \E p \in Procs :
    /\ procs[p].op = "retrieveContext"
    /\ procs[p].pc = "done"
    /\ procs[p].topK > MaxTopK
    /\ StrLen(Trim(procs[p].query)) > 0
    /\ procs[p].error = "topK must be between 1 and 20"
    /\ ~HoldsNothing(documents, metadata, procs[p].documentId, procs[p].sessionId)

\* C15: when processDocument has failed and the cleanupDocument call of its
\* catch block has failed too, the call ends with the error that made the
\* ingestion fail (the one the catch block caught; for an invalid input, the
\* validation error), not with the error of the cleanup.
OriginalErrorNotMasked ==
  \A p \in Procs :
    LET r == procs[p]
        invalid == ProcessDocumentError(r.documentId, r.text, r.source)
    IN (r.op = "processDocument" /\ r.pc = "done" /\ r.cleanupFailed) =>
         /\ r.result = "error"
         /\ r.error = r.thrown
         /\ r.error # ""
         /\ invalid # "" => r.error = invalid

\* a whitespace-only text rejected, and the cleanup that follows fails
OriginalErrorNotMaskedWitness ==
  \E p \in Procs :
    /\ procs[p].op = "processDocument"
    /\ procs[p].pc = "done"
    /\ procs[p].cleanupFailed
    /\ procs[p].text = TextBlank
    /\ procs[p].error = "Text content is empty"
    /\ failures > 0

\* the similarity x is a number strictly above the number y
StrictlyHigher(x, y) == ~x.nan /\ ~y.nan /\ CompareNumbers(x, y) > 0

\* the positions, among the chunks found, of the chunks selected
Selected(r) ==
  {i \in 1..Len(r.documentChunks) : r.documentChunks[i] \in Range(r.topChunks)}

\* a retrieveContext call that has returned a context
Retrieved(r) == r.op = "retrieveContext" /\ r.pc = "done" /\ r.result = "ok"

StoredPosition(r, c) == CHOOSE i \in 1..Len(r.documentChunks) : r.documentChunks[i] = c

\* the similarity of the a-th chunk selected
SelectedScore(r, a) ==
  Similarities(r.queryEmbedding, r.documentChunks)[StoredPosition(r, r.topChunks[a])].similarity

Scored(r) ==
  /\ r.op = "retrieveContext"
  /\ r.pc = "done"
  /\ r.queryEmbedding # Null
  /\ Len(r.documentChunks) > 0

\* the stored chunk's embedding and the query vector differ in length
BadRecord(r, i) == VecLen(r.documentChunks[i].embedding) # VecLen(r.queryEmbedding)

\* C18: when cosineSimilarity raises for a stored chunk, whose embedding
\* differs in length from the query vector, retrieveContext still returns a
\* context; that chunk is scored 0 and every other chunk is scored with its
\* cosine similarity to the query.
BadRecordDoesNotAbort ==
  \A p \in Procs :
    LET r == procs[p]
        scores == Similarities(r.queryEmbedding, r.documentChunks)
    IN Scored(r) =>
         /\ r.result = "ok"
         /\ Len(r.topChunks) > 0
         /\ Len(scores) = Len(r.documentChunks)
         /\ \A i \in 1..Len(r.documentChunks) :
              /\ scores[i].chunk = r.documentChunks[i]
              /\ BadRecord(r, i) =>
                   /\ cosineSimilarity(r.queryEmbedding, r.documentChunks[i].embedding).thrown
                   /\ scores[i].similarity = ZeroSimilarity
              /\ ~BadRecord(r, i) =>
                   /\ ~scores[i].similarity.thrown
                   /\ scores[i].similarity =
                        cosineSimilarity(r.queryEmbedding, r.documentChunks[i].embedding)

\* a retrieval over a bad record stored first and a chunk that scores above
\* 0, which is returned ahead of it
BadRecordDoesNotAbortWitness ==
  \E p \in Procs :
    LET r == procs[p]
    IN /\ Scored(r)
       /\ r.result = "ok"
       /\ BadRecord(r, 1)
       /\ \E i \in 2..Len(r.documentChunks) :
            /\ ~BadRecord(r, i)
            /\ r.topChunks[1] = r.documentChunks[i]
            /\ StrictlyHigher(
                 cosineSimilarity(r.queryEmbedding, r.documentChunks[i].embedding),
                 ZeroSimilarity)

\* the text has the character c
HasChar(t, c) == \E i \in 1..Len(t) : t[i].c = c

\* the chunks splitIntoChunks has returned for the text r.text
Chunked(r) == r.op = "splitIntoChunks" /\ r.pc = "done"

\* C19: every chunk splitIntoChunks emits is non-empty and at most chunkSize
\* (1000) characters long, except a chunk that is one single sentence (no
\* terminator and no injected ". " in it) longer than chunkSize.
ChunkSizeBound ==
  \A p \in Procs :
    LET r == procs[p]
    IN Chunked(r) =>
         \A i \in 1..Len(r.chunks) :
           /\ StrLen(r.chunks[i]) > 0
           /\ \/ StrLen(r.chunks[i]) <= chunkSize
              \/ /\ ~HasChar(r.chunks[i], ".")
                 /\ ~HasChar(r.chunks[i], "!")
                 /\ r.chunks[i] \in
                      {Trim(s) : s \in Range(Split(r.text, "terminator"))}

\* a sentence longer than chunkSize emitted whole, next to a chunk of two
\* sentences that is exactly chunkSize long
ChunkSizeBoundWitness ==
  \E p \in Procs :
    LET r == procs[p]
    IN /\ Chunked(r)
       /\ \E i, j \in 1..Len(r.chunks) :
            /\ StrLen(r.chunks[i]) > chunkSize
            /\ StrLen(r.chunks[j]) = chunkSize
            /\ HasChar(r.chunks[j], ".")

RECURSIVE SplitOnDotSpace(_, _, _)
\* chunk.split(". ") from run i on, cur being the piece under way
SplitOnDotSpace(t, i, cur) ==
  IF i > Len(t) THEN << cur >>
  ELSE IF t[i].c = "." /\ i < Len(t) /\ t[i + 1].c = " "
  THEN << Concat(cur, Str(".", t[i].n - 1)) >>
       \o SplitOnDotSpace(t, i + 2, Str(" ", t[i + 1].n - 1))
  ELSE SplitOnDotSpace(t, i + 1, Concat(cur, << t[i] >>))

RECURSIVE Sentences(_)
\* the pieces of all chunks, in order
Sentences(chunks) ==
  IF chunks = << >> THEN << >>
  ELSE SplitOnDotSpace(Head(chunks), 1, << >>) \o Sentences(Tail(chunks))

\* the trimmed non-empty sentences of a text
TrimmedSentences(text) ==
  LET found == SelectSeq(Split(text, "terminator"), NonBlank)
  IN [i \in 1..Len(found) |-> Trim(found[i])]

\* C20: the chunks splitIntoChunks emits, each split on the injected ". "
\* and the pieces put one after another, are exactly the trimmed non-empty
\* sentences of the text it was given, in their order, none lost and none
\* twice.
ChunkCoverage ==
  \A p \in Procs :
    LET r == procs[p]
    IN Chunked(r) => Sentences(r.chunks) = TrimmedSentences(r.text)

\* three sentences in two chunks, one of the chunks holding two of them
ChunkCoverageWitness ==
  \E p \in Procs :
    LET r == procs[p]
    IN /\ Chunked(r)
       /\ Len(r.chunks) = 2
       /\ Len(TrimmedSentences(r.text)) = 3
       /\ \E i \in 1..2 : HasChar(r.chunks[i], ".")

\* C21: within one processDocument call at most one embedding request is
\* outstanding at any time, and the request for the next chunk is issued
\* only after the embedding of the chunk before it has been returned: the
\* iterations begun are the chunks pushed, plus the one awaited.
SequentialEmbedding ==
  \A p \in Procs :
    LET r == procs[p]
    IN (r.op = "processDocument" /\ r.issued > 0) =>
         /\ r.outstanding \in {0, 1}
         /\ r.pc \in {"embed", "embed:await"} =>
              r.issued = Len(r.chunksWithEmbeddings) + r.outstanding

\* the request for the second chunk is outstanding, the first chunk embedded
SequentialEmbeddingWitness ==
  \E p \in Procs :
    /\ procs[p].op = "processDocument"
    /\ procs[p].pc = "embed:await"
    /\ procs[p].issued = 2
    /\ procs[p].outstanding = 1
    /\ Len(procs[p].chunksWithEmbeddings) = 1

\* processQuery is executing for the request
Executing(r) == queries[r].pc \in {"json", "retrieve", "load", "chat", "parse"}

\* C22: however the POST requests arrive, at most one processQuery is
\* executing at any time, and so at most one chat-completion call.
QuerySerialization ==
  /\ Cardinality({r \in Requests : Executing(r)}) <= 1
  /\ Cardinality({r \in Requests : queries[r].pc = "chat"}) <= 1
  /\ (\E r \in Requests : Executing(r)) => isProcessingRequest

\* a chat completion under way while two requests that arrived later wait
QuerySerializationWitness ==
  /\ \E r \in Requests : queries[r].pc = "chat"
  /\ Len(requestQueue) >= 2

\* the sequence has no element twice
NoRepeat(seq) == \A i, j \in 1..Len(seq) : seq[i] = seq[j] => i = j

\* C26: provided each processQuery call terminates, every request pushed
\* onto requestQueue is eventually dequeued and run, exactly once and in the
\* order of arrival: also behind a request that ended with an error, and
\* when it arrived while processQueue was running.
QueueDrains ==
  /\ [](/\ Len(startedQueries) <= Len(arrived)
        /\ startedQueries = SubSeq(arrived, 1, Len(startedQueries))
        /\ NoRepeat(startedQueries)
        /\ requestQueue = SubSeq(arrived, Len(startedQueries) + 1, Len(arrived))
        /\ \A r \in Requests : queries[r].runs <= 1)
  /\ \A r \in Requests :
       (queries[r].pc = "queued") ~> (queries[r].pc = "done" /\ queries[r].runs = 1)

\* the third request, which arrived while processQueue was running, has
\* been run after the two before it, the first of which ended with status 500
QueueDrainsWitness ==
  /\ MaxRequests >= 3
  /\ queries[1].status = 500
  /\ queries[2].pc = "done"
  /\ queries[2].waited
  /\ queries[3].waited
  /\ queries[3].pc = "done"
  /\ startedQueries = << 1, 2, 3 >>

\* the k-th loadModel call has failed
LoadFailed(k) == k \in DOMAIN loadModelCalls /\ loadModelCalls[k].settled = "rejected"

\* C27: once a loadModel call has failed, modelLoadingPromise stays set to
\* its rejected promise and isModelLoaded stays false; no later
\* ensureModelLoaded call issues a load request, and every query that
\* reaches the model-load step from then on ends with the status 500.
ModelLoadFailureSticky ==
  /\ [](\A k \in DOMAIN loadModelCalls :
          LoadFailed(k) =>
            /\ modelLoadingPromise = k
            /\ ~isModelLoaded
            /\ Len(loadModelCalls) = k
            /\ \A r \in Requests :
                 /\ queries[r].pc \notin {"chat", "parse"}
                 /\ (queries[r].loadStep /\ queries[r].pc = "done") =>
                      queries[r].status = 500
                 /\ (queries[r].loadStep /\ queries[r].pc = "load") =>
                      queries[r].awaits = k)
  /\ [][\A k \in DOMAIN loadModelCalls :
          LoadFailed(k) =>
            /\ loadModelCalls' = loadModelCalls
            /\ modelLoadingPromise' = modelLoadingPromise
            /\ isModelLoaded' = isModelLoaded]_vars

\* after a failed load, a later query has reached the model-load step
\* without starting a load and has ended with the status 500
ModelLoadFailureStickyWitness ==
  \E r \in Requests :
    /\ LoadFailed(1)
    /\ queries[r].loadStep
    /\ ~queries[r].owner
    /\ queries[r].awaits = 1
    /\ queries[r].pc = "done"
    /\ queries[r].status = 500

\* C23: createTextBasedEmbedding(text) is the 384-length vector whose entry
\* i is, for the i-th distinct lower-cased whitespace-separated word in
\* first-seen order, the count of that word divided by the number of words,
\* and 0 for every other i; for every text, digit-only words included.
SyntheticEmbeddingDefinition ==
  \A p \in Procs :
    LET r == procs[p]
        words == Split(ToLowerCase(r.text), "whitespace")
        firstSeen == Distinct(words, {})
        k == IF Len(firstSeen) < EmbeddingSize THEN Len(firstSeen) ELSE EmbeddingSize
    IN (r.op = "createTextBasedEmbedding" /\ r.pc = "done") =>
         /\ VecLen(r.queryEmbedding) = EmbeddingSize
         /\ r.queryEmbedding.den = Len(words)
         /\ r.queryEmbedding.num = [i \in 1..k |-> Count(words, firstSeen[i])]

\* the first sentence of a chunk
FirstSentence(chunk) == SplitOnDotSpace(chunk, 1, << >>)[1]

\* C24: splitIntoChunks closes a chunk only when the next sentence, appended
\* with the ". " separator, would make it longer than chunkSize: for every
\* two consecutive chunks, the length of the first plus 2 plus the length of
\* the first sentence of the next is above chunkSize.
GreedyChunking ==
  \A p \in Procs :
    LET r == procs[p]
    IN Chunked(r) =>
         \A i \in 1..(Len(r.chunks) - 1) :
           StrLen(r.chunks[i]) + StrLen(DotSpace) + StrLen(FirstSentence(r.chunks[i + 1]))
             > chunkSize

\* a chunk closed because the next sentence would have made it one character
\* longer than chunkSize
GreedyChunkingWitness ==
  \E p \in Procs :
    LET r == procs[p]
    IN /\ Chunked(r)
       /\ Len(r.chunks) >= 2
       /\ StrLen(r.chunks[1]) + StrLen(DotSpace) + StrLen(FirstSentence(r.chunks[2]))
            = chunkSize + 1

\* every entry of the vector is 0
IsZeroVector(v) == \A i \in 1..Len(v.num) : v.num[i] = 0

\* C25: when the query vector or the embedding of a chunk is all zeros, the
\* similarity used for ranking that chunk is the number 0, not NaN.
ZeroVectorFallback ==
  \A p \in Procs :
    LET r == procs[p]
    IN (/\ r.op = "similarity"
        /\ \/ IsZeroVector(r.queryEmbedding)
           \/ IsZeroVector(r.documentChunks[1].embedding)) =>
         Similarities(r.queryEmbedding, r.documentChunks)[1].similarity = ZeroSimilarity

\* C28: one processDocument(d, ..., s) interleaved with one cleanupDocument(d, s)
\* or cleanupSession(s), on a store that held nothing and answers every
\* operation: once both have returned, the store holds for (d, s) all the
\* chunks of the document with its one metadata record, or nothing at all.
CleanupIngestionRace ==
  LET ingest == procs[1]
      cleanup == procs[2]
      chunks == findChunks(documents, ingest.documentId, ingest.sessionId)
      records == {i \in 1..Len(metadata) :
                    MetaMatches(metadata[i], ingest.documentId, ingest.sessionId)}
  IN (/\ calls = 2
      /\ failures = 0
      /\ ingest.op = "processDocument" /\ ingest.pc = "done"
      /\ cleanup.op \in {"cleanupDocument", "cleanupSession"} /\ cleanup.pc = "done"
      /\ cleanup.sessionId = ingest.sessionId) =>
       \/ /\ Len(chunks) = 0
          /\ records = {}
       \/ /\ ingest.result = "ok"
          /\ Len(chunks) = Len(ingest.chunksWithEmbeddings)
          /\ Cardinality(records) = 1

\* C29: a retrieveContext call never ends with "No relevant chunks found for
\* the query" or "No meaningful context could be extracted" (a call that
\* passed validation and found the document selects at least one chunk, and
\* every stored chunk text is non-blank), and a processDocument call never
\* ends with "Text preprocessing resulted in empty content".
UnreachableErrors ==
  \A p \in Procs :
    /\ procs[p].op = "retrieveContext" =>
         /\ procs[p].error \notin {"No relevant chunks found for the query",
                                   "No meaningful context could be extracted"}
         /\ procs[p].thrown \notin {"No relevant chunks found for the query",
                                    "No meaningful context could be extracted"}
    /\ procs[p].op = "processDocument" =>
         /\ procs[p].error # "Text preprocessing resulted in empty content"
         /\ procs[p].thrown # "Text preprocessing resulted in empty content"
    /\ \A i \in 1..Len(documents) : NonBlank(documents[i].text)

\* a retrieval on a stored document, with a query that shares nothing with
\* it, returns a context of at least one non-blank chunk
UnreachableErrorsWitness ==
  /\ procs[1].op = "retrieveContext" /\ procs[1].pc = "done" /\ procs[1].result = "ok"
  /\ findOneMetadata(metadata, procs[1].documentId, procs[1].sessionId) # Null
  /\ Len(procs[1].topChunks) >= 1
  /\ NonBlank(procs[1].context)
  /\ \A i \in 1..Len(procs[1].documentChunks) :
       LET sim == cosineSimilarity(procs[1].queryEmbedding, procs[1].documentChunks[i].embedding)
       IN sim.thrown \/ sim.nan \/ sim.d <= 0

\* C30: the MongoClient instances created and not closed are at most one (as
\* long as no two closeDatabaseConnection calls have awaited close() at
\* once); a connectToDatabase call made while db is set returns that db
\* without connecting, and the calls that return between the same two
\* closes return the same Db; a call made while db is unset (with the
\* environment set) attempts the connection, and a call whose connect fails
\* leaves db as it was.
SharedConnection ==
  LET connects == {k \in 1..Len(connectionCalls) : connectionCalls[k].op = "connectToDatabase"}
      returns == {k \in connects : connectionCalls[k].pc = "done" /\ connectionCalls[k].result = "ok"}
  IN /\ ~overlappedCloses => Cardinality({i \in 1..Len(clients) : clients[i] = "open"}) <= 1
     /\ \A k \in connects :
          LET c == connectionCalls[k]
          IN /\ c.dbAtCall # NoDb =>
                  /\ c.pc = "done" /\ c.result = "ok"
                  /\ c.returned = c.dbAtCall /\ ~c.attempted
             /\ (c.dbAtCall = NoDb /\ c.envSet) => c.attempted
             /\ (c.attempted /\ c.result = "error") => c.dbAfter = c.dbBefore
     /\ \A j, k \in returns :
          connectionCalls[j].closesAtReturn = connectionCalls[k].closesAtReturn =>
            connectionCalls[j].returned = connectionCalls[k].returned
     /\ db \in {NoDb, ClientDb(client)}

\* a connect has failed and left db unset; a call made after it has connected
\* on the same client; a third call has returned the cached Db
SharedConnectionWitness ==
  /\ Len(clients) = 1 /\ closes = 0
  /\ \E i, j, k \in 1..Len(connectionCalls) :
       /\ connectionCalls[i].attempted /\ connectionCalls[i].result = "error"
       /\ connectionCalls[i].dbAfter = NoDb
       /\ connectionCalls[j].failedAtCall = 1 /\ connectionCalls[j].attempted
       /\ connectionCalls[j].result = "ok" /\ connectionCalls[j].instance = 1
       /\ connectionCalls[k].op = "connectToDatabase" /\ ~connectionCalls[k].attempted
       /\ connectionCalls[k].result = "ok"
       /\ connectionCalls[k].returned = connectionCalls[j].returned

====
